---------------------------- MODULE Spec2Model ----------------------------
(***************************************************************************)
(* A model of seven mechanisms of the Fluid Framework runtime:             *)
(*                                                                         *)
(*   - OpGroupingManager (groupBatch / ungroupOp), the batch grouping      *)
(*     codec;                                                              *)
(*   - ChannelAttachBroker, the attachment-propagation graph;              *)
(*   - PromiseCache with its GarbageCollector, the expiring cache of       *)
(*     asynchronous work;                                                  *)
(*   - PromiseCache2, the variant of that cache whose methods are async;   *)
(*   - DataStoreContexts, the registry of data store contexts and of the   *)
(*     promises that wait for their binding;                               *)
(*   - DemoWithUnderlyingAsyncStore, the per-key lock;                     *)
(*   - MapWithExpiration, the Map whose entries expire.                    *)
(*                                                                         *)
(* The mechanisms share no state.  Each has its own specifications         *)
(* (SpecCodec; SpecBroker, SpecBrokerSync, SpecBrokerLive; SpecCache,      *)
(* SpecCacheAbsolute; SpecCache2; SpecContexts; SpecLock; SpecMap) over    *)
(* its own variables; the variables of the other mechanisms stay at their  *)
(* initial values.                                                         *)
(***************************************************************************)
EXTENDS Integers, Sequences, FiniteSets, TLC

VARIABLES
    \* ---- OpGroupingManager ----
    batch,          \* the IBatch handed to groupBatch
    enabled,        \* OpGroupingManager.groupedBatchingEnabled
    grouped,        \* outcome of groupBatch(batch)
    received,       \* an ISequencedDocumentMessage handed to ungroupOp
    sentIndex,      \* index in grouped.value.content the received op came from (0: none)
    ungrouped,      \* result of ungroupOp(received)
    cphase,         \* "input" | "grouped" | "received" | "ungrouped"
    \* ---- ChannelAttachBroker ----
    attached,           \* broker -> its _isAttached
    referencedBrokers,  \* broker -> its referencedBrokers, in insertion order
    pendingAttach,      \* unattached brokers whose attachFn was invoked and
                        \* returned, and has still to call setAttached
    lastCall,           \* the last call made on a broker, and what it did
    \* ---- PromiseCache ----
    expiry,         \* the policy of PromiseCacheOptions.expiry
    cache,          \* PromiseCache.cache: key -> promise (NoPromise: no entry)
    promises,       \* the promises safeAsyncFn() has returned, in order
    timers,         \* the pending setTimeout callbacks of the GarbageCollector
    microtasks,     \* settled promises whose reaction has still to run
    lastOp,         \* the last call made on the cache, and what it did
    \* ---- PromiseCache2 (the all-async cache) ----
    cache2,         \* PromiseCache2.cache: key -> promise (NoPromise: no entry)
    calls,          \* the addOrGet and add calls made, and where each stands
    asyncFns,       \* the promises safeAsyncFn() has returned, in order
    jobs,           \* the microtask queue: calls to resume, catch callbacks
    \* ---- DataStoreContexts ----
    contexts,           \* DataStoreContexts._contexts: id -> context
    allContexts,        \* id -> { context, bound }
    notBoundContexts,   \* the set of ids setupNew has added
    contextsDeferred,   \* id -> state of its Deferred ("none": no entry)
    pendingBindPs,      \* the PromiseCache of the waits: id -> promise
    binds,              \* the promises waitForContextBind(id)() has returned
    got,                \* id -> the promise getContextUponBinding(id) returned
    \* ---- DemoWithUnderlyingAsyncStore (its per-key lock) ----
    heldLockIds,    \* key -> the lockId held for it (NoLock: no entry)
    nextLockId,     \* the counter of lock ids
    lockers,        \* the lock(key) calls made, in order, and where each stands
    assertFailed,   \* whether an assert of lockNow has failed so far
    \* ---- MapWithExpiration ----
    expiration,         \* the policy of MapWithExpiration.expiration
    entries,            \* the entries of the Map: key -> value (NoValue: none)
    expirationTimeouts, \* the keys with a pending timeout, in the order set
    disposed            \* MapWithExpiration.disposed

codecVars == <<batch, enabled, grouped, received, sentIndex, ungrouped, cphase>>

brokerVars == <<attached, referencedBrokers, pendingAttach, lastCall>>

cacheVars == <<expiry, cache, promises, timers, microtasks, lastOp>>

cache2Vars == <<cache2, calls, asyncFns, jobs>>

mapVars == <<expiration, entries, expirationTimeouts, disposed>>

lockVars == <<heldLockIds, nextLockId, lockers, assertFailed>>

contextsVars ==
    <<contexts, allContexts, notBoundContexts, contextsDeferred, pendingBindPs,
      binds, got>>

vars == <<codecVars, brokerVars, cacheVars, cache2Vars, contextsVars, lockVars, mapVars>>

-----------------------------------------------------------------------------
(***************************************************************************)
(* JavaScript values.  Every value is a record tagged by k, so that values *)
(* of different kinds can be compared.  An object is a function from its   *)
(* own property names to values; a property that is absent is not in the   *)
(* domain, which differs from a property whose value is undefined.         *)
(***************************************************************************)
Undefined == [k |-> "undefined"]

Null == [k |-> "null"]

Str(s) == [k |-> "string", s |-> s]

Bool(b) == [k |-> "boolean", b |-> b]

Obj(f) == [k |-> "object", o |-> f]

Arr(a) == [k |-> "array", a |-> a]

\* A string that holds the JSON text of the value j.
Text(j) == [k |-> "json", j |-> j]

EmptyObject == Obj([x \in {} |-> Undefined])

\* v.name, and v?.name: undefined for a primitive, for null and undefined,
\* and for an object without the property.
Get(v, name) ==
    IF v.k = "object" /\ name \in DOMAIN v.o THEN v.o[name] ELSE Undefined

\* Object.keys(v) of an object v.
ObjectKeys(v) == DOMAIN v.o

\* What JSON.stringify writes of a value: a property whose value is undefined
\* is left out, an undefined array element is written as null.
RECURSIVE Stringified(_)
Stringified(v) ==
    CASE v.k = "object" ->
            Obj([x \in {y \in DOMAIN v.o : v.o[y].k # "undefined"} |->
                    Stringified(v.o[x])])
      [] v.k = "array" ->
            Arr([i \in 1..Len(v.a) |->
                    IF v.a[i].k = "undefined" THEN Null ELSE Stringified(v.a[i])])
      [] OTHER -> v

ToJsonString(v) == Text(Stringified(v))

JSONparse(text) == text.j


-----------------------------------------------------------------------------
(***************************************************************************)
(* OpGroupingManager                                                       *)
(***************************************************************************)
MaxBatchLen == 3

groupedBatchOp == "groupedBatch"

\* The metadata objects a record of the input batch may carry.
MetadataValues ==
    { Undefined,
      EmptyObject,
      Obj([batch |-> Bool(TRUE)]),
      Obj([other |-> Bool(TRUE)]),
      Obj([batch |-> Bool(TRUE), other |-> Bool(TRUE)]) }

\* contents (a string of JSON text, or undefined), compression and
\* referenceSequenceNumber of a record.
PayloadValues ==
    { <<Undefined, Undefined, 5>>,
      <<ToJsonString(Str("a")), Undefined, 5>>,
      <<ToJsonString(Str("a")), Undefined, 7>>,
      <<ToJsonString(Obj([type |-> Str("set"), value |-> Undefined])), Str("lz4"), 5>> }

\* BatchMessage: one outgoing record of a batch.
BatchMessages ==
    { [ contents |-> p[1], metadata |-> m, compression |-> p[2],
        referenceSequenceNumber |-> p[3], type |-> "op",
        localOpMetadata |-> Undefined ] :
      p \in PayloadValues, m \in MetadataValues }

\* IBatch: the ordered records and a batch-level field.
Batches ==
    { [ content |-> c, contentSizeInBytes |-> Len(c) ] :
      c \in UNION { [1..n -> BatchMessages] : n \in 0..MaxBatchLen } }

NoBatch == [ content |-> <<>>, contentSizeInBytes |-> 0 ]

Returned(b) == [ threw |-> FALSE, error |-> "", value |-> b ]

Threw(code) == [ threw |-> TRUE, error |-> code, value |-> NoBatch ]

\* MetadataAssert without its second assert.
MetadataAssertCountOnly(message) ==
    IF message.metadata.k = "undefined"
    THEN ""
    ELSE IF ~(Cardinality(ObjectKeys(message.metadata)) < 2) THEN "0x5dd" ELSE ""

\* The two asserts of groupBatch on one record: the code of the first that
\* fails, "" when both pass.
MetadataAssert(message) ==
    IF message.metadata.k = "undefined"
    THEN ""
    ELSE LET keys == ObjectKeys(message.metadata)
         IN  IF ~(Cardinality(keys) < 2) THEN "0x5dd"
             ELSE IF ~(Cardinality(keys) = 0 \/ keys = {"batch"}) THEN "0x5de"
             ELSE ""

\* GroupedMessage with the record's contents left as the string it is
\* (double encoding).
GroupedMessageUnparsed(message) ==
    Obj([ contents |-> message.contents,
          metadata |-> message.metadata,
          compression |-> message.compression ])

\* GroupedMessage that leaves the record's compression out.
GroupedMessageNoCompression(message) ==
    Obj([ contents |-> IF message.contents.k = "undefined"
                       THEN Undefined
                       ELSE JSONparse(message.contents),
          metadata |-> message.metadata ])

\* One element of the envelope's array.
GroupedMessage(message) ==
    Obj([ contents |-> IF message.contents.k = "undefined"
                       THEN Undefined
                       ELSE JSONparse(message.contents),
          metadata |-> message.metadata,
          compression |-> message.compression ])

\* shouldGroup with the length test off by one.
shouldGroupOffByOne(b, groupedBatchingEnabled) ==
    ~(Len(b.content) <= 2 \/ ~groupedBatchingEnabled)

shouldGroup(b, groupedBatchingEnabled) ==
    ~(Len(b.content) < 2 \/ ~groupedBatchingEnabled)

groupBatch(b, groupedBatchingEnabled) ==
    IF ~shouldGroup(b, groupedBatchingEnabled)
    THEN Returned(b)
    ELSE LET failing == { i \in 1..Len(b.content) : MetadataAssert(b.content[i]) # "" }
         IN  IF failing # {}
             THEN Threw(MetadataAssert(
                     b.content[CHOOSE i \in failing : \A j \in failing : i <= j]))
             ELSE LET serializedContent ==
                          ToJsonString(Obj([
                              type |-> Str(groupedBatchOp),
                              contents |-> Arr([i \in 1..Len(b.content) |->
                                                  GroupedMessage(b.content[i])]) ]))
                  IN  Returned([ b EXCEPT !.content =
                          << [ localOpMetadata |-> Undefined,
                               metadata |-> Undefined,
                               compression |-> Undefined,
                               referenceSequenceNumber |->
                                   b.content[1].referenceSequenceNumber,
                               contents |-> serializedContent,
                               type |-> groupedBatchOp ] >> ])

\* isGroupContents that looks for an array of contents instead of the marker.
isGroupContentsByShape(opContents) == Get(opContents, "contents").k = "array"

isGroupContents(opContents) == Get(opContents, "type") = Str(groupedBatchOp)

\* ungroupOp that leaves every record the envelope's clientSequenceNumber.
ungroupOpKeepCsn(op) ==
    IF ~isGroupContents(op.contents)
    THEN << op >>
    ELSE LET messages == Get(op.contents, "contents").a
         IN  [ i \in 1..Len(messages) |->
                 [ op EXCEPT !.contents = Get(messages[i], "contents"),
                             !.metadata = Get(messages[i], "metadata"),
                             !.compression = Get(messages[i], "compression") ] ]

ungroupOp(op) ==
    IF ~isGroupContents(op.contents)
    THEN << op >>
    ELSE LET messages == Get(op.contents, "contents").a
         IN  [ fakeCsn \in 1..Len(messages) |->
                 [ op EXCEPT !.contents = Get(messages[fakeCsn], "contents"),
                             !.metadata = Get(messages[fakeCsn], "metadata"),
                             !.compression = Get(messages[fakeCsn], "compression"),
                             !.clientSequenceNumber = fakeCsn ] ]

\* The ISequencedDocumentMessage a receiver holds for a submitted record: the
\* record's fields, its contents parsed, and the fields the service stamps.
Sequenced(message) ==
    [ contents |-> IF message.contents.k = "undefined"
                   THEN Undefined
                   ELSE JSONparse(message.contents),
      metadata |-> message.metadata,
      compression |-> message.compression,
      type |-> message.type,
      referenceSequenceNumber |-> message.referenceSequenceNumber,
      clientId |-> "client",
      sequenceNumber |-> 40,
      clientSequenceNumber |-> 9 ]

\* Records of other senders: contents of every shape that is not an envelope.
ForeignContents ==
    { Undefined, Null, Str(groupedBatchOp), EmptyObject,
      Obj([type |-> Str("op")]),
      Obj([type |-> Undefined, contents |-> Arr(<<>>)]),
      Obj([contents |-> Arr(<< Obj([contents |-> Str("a")]) >>)]),
      Arr(<< Str(groupedBatchOp) >>) }

ForeignOps ==
    { [ contents |-> c, metadata |-> m, compression |-> z, type |-> "op",
        referenceSequenceNumber |-> 5, clientId |-> "other",
        sequenceNumber |-> 40, clientSequenceNumber |-> 9 ] :
      c \in ForeignContents,
      m \in { Undefined, Obj([batch |-> Bool(TRUE)]) },
      z \in { Undefined, Str("lz4") } }

NoOp == [ contents |-> Undefined, metadata |-> Undefined, compression |-> Undefined,
          type |-> "", referenceSequenceNumber |-> 0, clientId |-> "",
          sequenceNumber |-> 0, clientSequenceNumber |-> 0 ]

CodecInit ==
    /\ batch \in Batches
    /\ enabled \in BOOLEAN
    /\ grouped = Returned(NoBatch)
    /\ received = NoOp
    /\ sentIndex = 0
    /\ ungrouped = <<>>
    /\ cphase = "input"

\* The sender calls groupBatch on its batch.
GroupBatch ==
    /\ cphase = "input"
    /\ grouped' = groupBatch(batch, enabled)
    /\ cphase' = "grouped"
    /\ UNCHANGED <<batch, enabled, received, sentIndex, ungrouped, brokerVars, cacheVars, cache2Vars, contextsVars, lockVars, mapVars>>

\* A record of the batch groupBatch returned reaches a receiver.
Deliver ==
    /\ cphase = "grouped"
    /\ ~grouped.threw
    /\ \E i \in 1..Len(grouped.value.content) :
          /\ received' = Sequenced(grouped.value.content[i])
          /\ sentIndex' = i
    /\ cphase' = "received"
    /\ UNCHANGED <<batch, enabled, grouped, ungrouped, brokerVars, cacheVars, cache2Vars, contextsVars, lockVars, mapVars>>

\* A record of another sender reaches the receiver.
DeliverForeign ==
    /\ cphase = "input"
    /\ batch = NoBatch
    /\ received' \in ForeignOps
    /\ cphase' = "received"
    /\ UNCHANGED <<batch, enabled, grouped, sentIndex, ungrouped, brokerVars, cacheVars, cache2Vars, contextsVars, lockVars, mapVars>>

\* The receiver calls ungroupOp on the record it holds.
UngroupOp ==
    /\ cphase = "received"
    /\ ungrouped' = ungroupOp(received)
    /\ cphase' = "ungrouped"
    /\ UNCHANGED <<batch, enabled, grouped, received, sentIndex, brokerVars, cacheVars, cache2Vars, contextsVars, lockVars, mapVars>>

CodecNext == GroupBatch \/ Deliver \/ DeliverForeign \/ UngroupOp

-----------------------------------------------------------------------------
(***************************************************************************)
(* ChannelAttachBroker                                                     *)
(*                                                                         *)
(* A call on a broker runs to its end in one step: setAttached walks the   *)
(* referenced brokers and calls attach on them, attach calls attachFn, and *)
(* an attachFn may call setAttached on its own broker before it returns.   *)
(* What an attachFn does is the host's choice, made anew for every call:   *)
(*   "sync"   it calls setAttached on its broker before it returns;        *)
(*   "defer"  it returns, and calls setAttached later (or never);          *)
(*   "throw"  it throws.                                                   *)
(***************************************************************************)
MaxRefs == 3

Brokers == {1, 2, 3}

NoBroker == 0

FnKinds == {"sync", "defer", "throw"}

\* A host: what its attachFns may do, and whether the model keeps the record
\* of the last call (a history variable: no call reads it).
AnyHost == [ kinds |-> FnKinds, recorded |-> TRUE ]

\* A host whose attachFns never throw.
LiveHost == [ kinds |-> {"sync", "defer"}, recorded |-> FALSE ]

\* A host whose attachFns all call setAttached on their broker before they
\* return, and never throw.
SyncHost == [ kinds |-> {"sync"}, recorded |-> TRUE ]

\* The members of a referencedBrokers set.
Targets(refs, b) == { refs[b][i] : i \in 1..Len(refs[b]) }

\* The brokers reachable from the brokers S through referencedBrokers.
RECURSIVE ReachFrom(_, _)
ReachFrom(refs, S) ==
    LET N == S \cup UNION { Targets(refs, b) : b \in S }
    IN  IF N = S THEN S ELSE ReachFrom(refs, N)

\* What the attachFn of broker b does in this call.
KindOf(kinds, b) == IF b \in DOMAIN kinds THEN kinds[b] ELSE "defer"

\* The state a call works on: the attached brokers, the pending attachFns,
\* and what the call has done so far: how often it
\* invoked each attachFn, which attachFns it invoked from a propagation
\* (setAttached's loop or addReference), which flags were set inside those,
\* whether an exception is in flight, and whose attachFn threw it, and the
\* arguments of the referenceAdded events it emitted, with what a listener of
\* each event finds when it is called.
StartOfCall ==
    [ att |-> { b \in Brokers : attached[b] },
      pend |-> pendingAttach,
      inv |-> [ b \in Brokers |-> 0 ],
      prop |-> {},
      propSet |-> {},
      threw |-> FALSE,
      thrower |-> NoBroker,
      emitted |-> <<>>,
      heard |-> <<>> ]

RECURSIVE RunSetAttached(_, _, _, _, _)
RECURSIVE RunPropagation(_, _, _, _, _)
RECURSIVE RunAttach(_, _, _, _, _)

\* setAttached that sets the flag and does not walk the referenced brokers.
RunSetAttachedFlagOnly(cs, b, refs, kinds, inProp) ==
    [ cs EXCEPT !.att = @ \cup {b},
                !.propSet = IF inProp /\ b \notin cs.att THEN @ \cup {b} ELSE @ ]

\* setAttached that flips the flag whatever it was.
RunSetAttachedToggle(cs, b, refs, kinds, inProp) ==
    IF b \in cs.att
    THEN [ cs EXCEPT !.att = @ \ {b} ]
    ELSE RunPropagation(
            [ cs EXCEPT !.att = @ \cup {b},
                        !.propSet = IF inProp THEN @ \cup {b} ELSE @ ],
            b, 1, refs, kinds)

\* setAttached that takes its flag back when its loop ends in an exception.
RunSetAttachedRollsBack(cs, b, refs, kinds, inProp) ==
    IF b \in cs.att
    THEN cs
    ELSE LET c1 == RunPropagation(
                      [ cs EXCEPT !.att = @ \cup {b},
                                  !.propSet = IF inProp THEN @ \cup {b} ELSE @ ],
                      b, 1, refs, kinds)
         IN  IF c1.threw THEN [ c1 EXCEPT !.att = @ \ {b} ] ELSE c1

\* this.setAttached() on broker b; inProp: called from inside an attachFn
\* that a propagation invoked.
RunSetAttached(cs, b, refs, kinds, inProp) ==
    IF b \in cs.att
    THEN cs
    ELSE RunPropagation(
            [ cs EXCEPT !.att = @ \cup {b},
                        !.propSet = IF inProp THEN @ \cup {b} ELSE @ ],
            b, 1, refs, kinds)

\* A forEach that does not test isAttached and calls the target's attachFn
\* directly, also on a second visit.
RunPropagationUnguarded(cs, b, i, refs, kinds) ==
    IF i > Len(refs[b])
    THEN cs
    ELSE LET t == refs[b][i]
             c0 == [ cs EXCEPT !.inv[t] = @ + 1, !.prop = @ \cup {t} ]
             c1 == CASE KindOf(kinds, t) = "sync" ->
                            RunSetAttached(c0, t, refs, kinds, TRUE)
                     [] KindOf(kinds, t) = "defer" ->
                            [ c0 EXCEPT !.pend = @ \cup {t} ]
                     [] OTHER -> [ c0 EXCEPT !.threw = TRUE, !.thrower = t ]
         IN  IF c1.threw
             THEN c1
             ELSE RunPropagation(c1, b, i + 1, refs, kinds)

\* A forEach that stops after the first referenced broker.
RunPropagationFirstOnly(cs, b, i, refs, kinds) ==
    IF i > Len(refs[b]) \/ i > 1
    THEN cs
    ELSE LET targetBroker == refs[b][i]
         IN  IF targetBroker \notin cs.att
             THEN RunAttach(cs, targetBroker, refs, kinds, TRUE)
             ELSE cs

\* A forEach that catches what a target's attach throws and goes on.
RunPropagationCatches(cs, b, i, refs, kinds) ==
    IF i > Len(refs[b])
    THEN cs
    ELSE LET targetBroker == refs[b][i]
             c1 == IF targetBroker \notin cs.att
                   THEN RunAttach(cs, targetBroker, refs, kinds, TRUE)
                   ELSE cs
         IN  RunPropagation([ c1 EXCEPT !.threw = FALSE ], b, i + 1, refs, kinds)

\* The forEach of setAttached on broker b, from its i-th referenced broker on.
\* An exception leaves the loop, and setAttached.
RunPropagation(cs, b, i, refs, kinds) ==
    IF i > Len(refs[b])
    THEN cs
    ELSE LET targetBroker == refs[b][i]
             c1 == IF targetBroker \notin cs.att
                   THEN RunAttach(cs, targetBroker, refs, kinds, TRUE)
                   ELSE cs
         IN  IF c1.threw
             THEN c1
             ELSE RunPropagation(c1, b, i + 1, refs, kinds)

\* attach that also returns when an attachFn of the broker has been invoked
\* and has still to call setAttached.
RunAttachOncePending(cs, b, refs, kinds, viaProp) ==
    IF b \in cs.att \/ b \in cs.pend
    THEN cs
    ELSE LET c1 == [ cs EXCEPT !.inv[b] = @ + 1,
                               !.prop = IF viaProp THEN @ \cup {b} ELSE @ ]
         IN  CASE KindOf(kinds, b) = "sync" ->
                      RunSetAttached(c1, b, refs, kinds, viaProp)
               [] KindOf(kinds, b) = "defer" -> [ c1 EXCEPT !.pend = @ \cup {b} ]
               [] OTHER -> [ c1 EXCEPT !.threw = TRUE, !.thrower = b ]

\* attach without its test of _isAttached.
RunAttachUnguarded(cs, b, refs, kinds, viaProp) ==
    LET c1 == [ cs EXCEPT !.inv[b] = @ + 1,
                          !.prop = IF viaProp THEN @ \cup {b} ELSE @ ]
    IN  CASE KindOf(kinds, b) = "sync" -> RunSetAttached(c1, b, refs, kinds, viaProp)
          [] KindOf(kinds, b) = "defer" -> [ c1 EXCEPT !.pend = @ \cup {b} ]
          [] OTHER -> [ c1 EXCEPT !.threw = TRUE, !.thrower = b ]

\* broker.attach(sourceDataStore) on broker b; viaProp: called by
\* setAttached's loop or by addReference.
RunAttach(cs, b, refs, kinds, viaProp) ==
    IF b \in cs.att
    THEN cs
    ELSE LET c1 == [ cs EXCEPT !.inv[b] = @ + 1,
                               !.prop = IF viaProp THEN @ \cup {b} ELSE @ ]
         IN  CASE KindOf(kinds, b) = "sync" ->
                      RunSetAttached(c1, b, refs, kinds, viaProp)
               [] KindOf(kinds, b) = "defer" -> [ c1 EXCEPT !.pend = @ \cup {b} ]
               [] OTHER -> [ c1 EXCEPT !.threw = TRUE, !.thrower = b ]

\* this.emit("referenceAdded", targetBroker) on broker b: the argument of
\* the event, and what a listener finds when it is called: whether b
\* references the target, whether the target is attached, and how often the
\* call has invoked the target's attachFn.
Emit(cs, b, targetBroker, refs) ==
    [ cs EXCEPT !.emitted = Append(@, targetBroker),
                !.heard = Append(@, [ recorded |-> targetBroker \in Targets(refs, b),
                                      attached |-> targetBroker \in cs.att,
                                      invoked |-> cs.inv[targetBroker] ]) ]

\* addReference that takes the reference the other way round.
RunAddReferenceReversed(cs, b, targetBroker, refs, kinds) ==
    IF targetBroker \in cs.att /\ b \notin cs.att
    THEN RunAttach(cs, b, refs, kinds, TRUE)
    ELSE cs

\* addReference that propagates whether or not its own broker is attached.
RunAddReferenceUnconditional(cs, b, targetBroker, refs, kinds) ==
    IF targetBroker \notin cs.att
    THEN RunAttach(cs, targetBroker, refs, kinds, TRUE)
    ELSE cs

\* addReference that records the edge and does not propagate.
RunAddReferenceRecordOnly(cs, b, targetBroker, refs, kinds) == cs

\* The propagation of this.addReference(targetBroker) on broker b, once the
\* new reference is recorded in refs.
RunAddReference(cs, b, targetBroker, refs, kinds) ==
    IF b \in cs.att /\ targetBroker \notin cs.att
    THEN RunAttach(cs, targetBroker, refs, kinds, TRUE)
    ELSE cs

\* The choices of what the attachFns will do that a call reaching broker b
\* can invoke: those of the unattached brokers reachable from b.  A call that
\* finds b attached invokes none.
KindChoices(H, refs, b) ==
    IF attached[b]
    THEN { << >> }
    ELSE [ { x \in ReachFrom(refs, {b}) : ~attached[x] } -> H.kinds ]

\* A broker nothing has happened to yet.
Fresh(b) ==
    /\ ~attached[b]
    /\ b \notin pendingAttach
    /\ referencedBrokers[b] = <<>>
    /\ \A x \in Brokers : b \notin Targets(referencedBrokers, x)

\* Brokers are interchangeable, so of the brokers nothing has happened to yet
\* a call names the lowest-numbered ones.
LowestFresh(S) ==
    \A b \in S : Fresh(b) => \A x \in Brokers : (x < b /\ Fresh(x)) => x \in S

\* The end of a call of op on broker b (with argument t, or NoBroker): the
\* broker state it leaves and the record of the call, which holds what the
\* call found (whether b, and t, were attached, and whether b referenced t)
\* and what it did.
EndOfCall(H, cs, op, b, t) ==
    /\ attached' = [ x \in Brokers |-> x \in cs.att ]
    /\ pendingAttach' = cs.pend \ cs.att
    /\ lastCall' =
          IF ~H.recorded
          THEN lastCall
          ELSE     [ op |-> op, broker |-> b, target |-> t,
                     wasAttached |-> attached[b],
                     targetWasAttached |-> (t # NoBroker /\ attached[t]),
                     wasReferenced |->
                         (t # NoBroker /\ t \in Targets(referencedBrokers, b)),
                     threw |-> cs.threw,
                     thrower |-> cs.thrower,
                     emitted |-> cs.emitted,
                     heard |-> cs.heard,
                     invoked |-> cs.inv,
                     byPropagation |-> cs.prop,
                     setByPropagation |-> cs.propSet ]

BrokerInit ==
    /\ \E k \in 0..Cardinality(Brokers) : attached = [ b \in Brokers |-> b <= k ]
    /\ referencedBrokers = [ b \in Brokers |-> <<>> ]
    /\ pendingAttach = {}
    /\ lastCall = [ op |-> "none", broker |-> NoBroker, target |-> NoBroker,
                    wasAttached |-> FALSE,
                    targetWasAttached |-> FALSE, wasReferenced |-> FALSE,
                    threw |-> FALSE, thrower |-> NoBroker, emitted |-> <<>>,
                    heard |-> <<>>,
                    invoked |-> [ b \in Brokers |-> 0 ],
                    byPropagation |-> {}, setByPropagation |-> {} ]

\* addReference that does not test referencedBrokers.has(targetBroker).
AddReferenceUntested(H, b, t) ==
    /\ LowestFresh({b, t})
    /\ LET refs == IF t \in Targets(referencedBrokers, b)
                   THEN referencedBrokers
                   ELSE [ referencedBrokers EXCEPT ![b] = Append(@, t) ]
       IN  /\ referencedBrokers' = refs
           /\ \E kinds \in IF attached[b]
                             THEN KindChoices(H, refs, t)
                             ELSE { << >> } :
                 EndOfCall(H, RunAddReference(
                                     Emit(StartOfCall, b, t, refs),
                                     b, t, refs, kinds),
                              "addReference", b, t)
    /\ UNCHANGED <<codecVars, cacheVars, cache2Vars, contextsVars, lockVars, mapVars>>

\* addReference that records the reference after the propagation, and so
\* not at all when the propagation ends in an exception.
AddReferenceRecordsLast(H, b, t) ==
    /\ LowestFresh({b, t})
    /\ IF t \in Targets(referencedBrokers, b)
       THEN /\ EndOfCall(H, StartOfCall, "addReference", b, t)
            /\ UNCHANGED referencedBrokers
       ELSE /\ Cardinality({ e \in Brokers \X Brokers :
                               e[2] \in Targets(referencedBrokers, e[1]) }) < MaxRefs
            /\ LET refs == [ referencedBrokers EXCEPT ![b] = Append(@, t) ]
               IN  \E kinds \in IF attached[b]
                                 THEN KindChoices(H, refs, t)
                                 ELSE { << >> } :
                      LET cs == RunAddReference(
                                   Emit(StartOfCall, b, t, refs),
                                   b, t, refs, kinds)
                      IN  /\ referencedBrokers' =
                                IF cs.threw THEN referencedBrokers ELSE refs
                          /\ EndOfCall(H, cs, "addReference", b, t)
    /\ UNCHANGED <<codecVars, cacheVars, cache2Vars, contextsVars, lockVars, mapVars>>

\* addReference that emits referenceAdded after it has propagated.
AddReferenceEmitsLast(H, b, t) ==
    /\ LowestFresh({b, t})
    /\ IF t \in Targets(referencedBrokers, b)
       THEN /\ EndOfCall(H, StartOfCall, "addReference", b, t)
            /\ UNCHANGED referencedBrokers
       ELSE /\ Cardinality({ e \in Brokers \X Brokers :
                               e[2] \in Targets(referencedBrokers, e[1]) }) < MaxRefs
            /\ LET refs == [ referencedBrokers EXCEPT ![b] = Append(@, t) ]
               IN  /\ referencedBrokers' = refs
                   /\ \E kinds \in IF attached[b]
                                     THEN KindChoices(H, refs, t)
                                     ELSE { << >> } :
                         LET cs == RunAddReference(StartOfCall, b, t, refs, kinds)
                         IN  EndOfCall(H, IF cs.threw THEN cs
                                          ELSE Emit(cs, b, t, refs),
                                       "addReference", b, t)
    /\ UNCHANGED <<codecVars, cacheVars, cache2Vars, contextsVars, lockVars, mapVars>>

\* The host calls b.addReference(t).
AddReference(H, b, t) ==
    /\ LowestFresh({b, t})
    /\ IF t \in Targets(referencedBrokers, b)
       THEN /\ EndOfCall(H, StartOfCall, "addReference", b, t)
            /\ UNCHANGED referencedBrokers
       ELSE /\ Cardinality({ e \in Brokers \X Brokers :
                               e[2] \in Targets(referencedBrokers, e[1]) }) < MaxRefs
            /\ LET refs == [ referencedBrokers EXCEPT ![b] = Append(@, t) ]
               IN  /\ referencedBrokers' = refs
                   /\ \E kinds \in IF attached[b]
                                     THEN KindChoices(H, refs, t)
                                     ELSE { << >> } :
                         EndOfCall(H, RunAddReference(
                                             Emit(StartOfCall, b, t, refs),
                                             b, t, refs, kinds),
                                      "addReference", b, t)
    /\ UNCHANGED <<codecVars, cacheVars, cache2Vars, contextsVars, lockVars, mapVars>>

\* The host calls b.attach(...).
Attach(H, b) ==
    /\ LowestFresh({b})
    /\ \E kinds \in KindChoices(H, referencedBrokers, b) :
          EndOfCall(H, RunAttach(StartOfCall, b, referencedBrokers, kinds, FALSE),
                       "attach", b, NoBroker)
    /\ UNCHANGED <<referencedBrokers, codecVars, cacheVars, cache2Vars, contextsVars, lockVars, mapVars>>

\* The host calls b.setAttached().
SetAttached(H, b) ==
    /\ LowestFresh({b})
    /\ \E kinds \in KindChoices(H, referencedBrokers, b) :
          EndOfCall(H, RunSetAttached(StartOfCall, b, referencedBrokers, kinds, FALSE),
                       "setAttached", b, NoBroker)
    /\ UNCHANGED <<referencedBrokers, codecVars, cacheVars, cache2Vars, contextsVars, lockVars, mapVars>>

\* An attachFn of b that returned earlier now calls b.setAttached().  (Once b
\* is attached that call does nothing, so the model forgets the attachFn.)
CompleteAttach(H, b) ==
    /\ b \in pendingAttach
    /\ \E kinds \in KindChoices(H, referencedBrokers, b) :
          EndOfCall(H,
                 RunSetAttached([ StartOfCall EXCEPT !.pend = @ \ {b} ], b,
                                referencedBrokers, kinds, FALSE),
                 "complete", b, NoBroker)
    /\ UNCHANGED <<referencedBrokers, codecVars, cacheVars, cache2Vars, contextsVars, lockVars, mapVars>>

BrokerNext ==
    \/ \E b, t \in Brokers : AddReference(AnyHost, b, t)
    \/ \E b \in Brokers : Attach(AnyHost, b)
    \/ \E b \in Brokers : SetAttached(AnyHost, b)
    \/ \E b \in Brokers : CompleteAttach(AnyHost, b)

\* The calls of a host whose attachFns all call setAttached synchronously.
\* No attachFn is left to call setAttached later.
BrokerNextSync ==
    \/ \E b, t \in Brokers : AddReference(SyncHost, b, t)
    \/ \E b \in Brokers : Attach(SyncHost, b)
    \/ \E b \in Brokers : SetAttached(SyncHost, b)

\* The calls of a host whose attachFns never throw.
BrokerNextLive ==
    \/ \E b, t \in Brokers : AddReference(LiveHost, b, t)
    \/ \E b \in Brokers : Attach(LiveHost, b)
    \/ \E b \in Brokers : SetAttached(LiveHost, b)
    \/ \E b \in Brokers : CompleteAttach(LiveHost, b)

-----------------------------------------------------------------------------
(***************************************************************************)
(* PromiseCache and its GarbageCollector                                   *)
(*                                                                         *)
(* JavaScript runs one job at a time.  A call on the cache is one step.    *)
(* When a promise settles, the reaction the cache attached to it (then:    *)
(* gc.update, catch: removeOnError and remove) is queued as a microtask;   *)
(* other jobs of the host may call the cache before it runs, but no timer  *)
(* fires and no time passes while a microtask is queued.  Time is counted  *)
(* in ticks; every timer is set for durationMs = Duration ticks.           *)
(***************************************************************************)
MaxComputes == 2

Duration == 2

KeyOrder == <<"k1", "k2">>

Keys == { KeyOrder[i] : i \in 1..Len(KeyOrder) }

Policies == {"indefinite", "absolute", "sliding"}

Errors == {"E1", "E2"}

NoPromise == 0

\* PromiseCacheOptions.removeOnError: the predicate of the model's cache
\* evicts on E1 and keeps on E2.
removeOnError(error) == error = "E1"

\* A pending timer: the key it was scheduled for, the ticks left, and
\* whether it is the one gcTimeouts holds for the key.  timers lists the
\* pending timers in the order they were set, which is the order they fire.
Timer(key, left, held) == [ key |-> key, left |-> left, held |-> held ]

\* GarbageCollector.cancel(key): clearTimeout of the timer gcTimeouts holds
\* for the key, and gcTimeouts.delete(key).
RECURSIVE gcCancel(_, _)
gcCancel(ts, key) ==
    IF ts = <<>> THEN <<>>
    ELSE IF Head(ts).key = key /\ Head(ts).held
         THEN gcCancel(Tail(ts), key)
         ELSE <<Head(ts)>> \o gcCancel(Tail(ts), key)

\* GarbageCollector.schedule that sets a timer under every policy.
gcScheduleAnyPolicy(policy, ts, key) ==
    Append([ i \in 1..Len(ts) |->
               IF ts[i].key = key THEN [ ts[i] EXCEPT !.held = FALSE ]
               ELSE ts[i] ],
           Timer(key, Duration, TRUE))

\* GarbageCollector.schedule(key): gcTimeouts.set(key, setTimeout(...)).  A
\* timer gcTimeouts held for the key before is no longer held, and is not
\* cleared.
gcSchedule(policy, ts, key) ==
    IF policy # "indefinite"
    THEN Append([ i \in 1..Len(ts) |->
                    IF ts[i].key = key THEN [ ts[i] EXCEPT !.held = FALSE ]
                    ELSE ts[i] ],
                Timer(key, Duration, TRUE))
    ELSE ts

\* GarbageCollector.update that reschedules under every policy with a timer.
gcUpdateAnyPolicy(policy, ts, key) ==
    IF policy # "indefinite"
    THEN gcSchedule(policy, gcCancel(ts, key), key)
    ELSE ts

\* GarbageCollector.update(key).
gcUpdate(policy, ts, key) ==
    IF policy = "sliding"
    THEN gcSchedule(policy, gcCancel(ts, key), key)
    ELSE ts

\* The cache and the timers as one value, for the methods that change both.
Store(c, ts) == [ cache |-> c, timers |-> ts ]

\* PromiseCache.has(key).
has(st, key) == st.cache[key] # NoPromise

\* get that drops an entry whose promise is rejected instead of returning it.
getHidesRejected(policy, st, key) ==
    IF has(st, key)
    THEN IF promises[st.cache[key]].status = "rejected"
         THEN Store([ st.cache EXCEPT ![key] = NoPromise ], st.timers)
         ELSE Store(st.cache, gcUpdate(policy, st.timers, key))
    ELSE st

\* PromiseCache.get(key): the state it leaves; it returns st.cache[key].
get(policy, st, key) ==
    IF has(st, key)
    THEN Store(st.cache, gcUpdate(policy, st.timers, key))
    ELSE st

\* PromiseCache.remove(key): the state it leaves; it returns has(st, key).
remove(st, key) ==
    Store([ st.cache EXCEPT ![key] = NoPromise ], gcCancel(st.timers, key))

\* A promise safeAsyncFn() returned: the key it was computed for, its
\* status, and the error of a rejected one.
Promise(key, status, error) == [ key |-> key, status |-> status, error |-> error ]

\* addOrGet that starts the work and leaves the storing to a later step.
addOrGetNoStore(policy, st, key, next) ==
    LET st1 == get(policy, st, key)
    IN  IF st1.cache[key] = NoPromise
        THEN Store(st1.cache, gcSchedule(policy, st1.timers, key))
        ELSE st1

\* PromiseCache.addOrGet(key, asyncFn): the state it leaves; next is the
\* promise safeAsyncFn() returns if it is called.  It returns the promise
\* it found at key, or next.
addOrGet(policy, st, key, next) ==
    LET st1 == get(policy, st, key)
    IN  IF st1.cache[key] = NoPromise
        THEN Store([ st1.cache EXCEPT ![key] = next ],
                   gcSchedule(policy, st1.timers, key))
        ELSE st1

\* add that stores the new promise over an entry it finds.
addOverwrite(policy, st, key, next) ==
    LET st2 == addOrGet(policy, st, key, next)
    IN  [ cache |-> [ st2.cache EXCEPT ![key] = next ], timers |-> st2.timers,
          result |-> ~has(st, key), caught |-> TRUE ]

\* PromiseCache.add(key, asyncFn): the state it leaves, the boolean it
\* returns, and whether it has put a catch on the promise addOrGet gave it.
add(policy, st, key, next) ==
    LET alreadyPresent == has(st, key)
        st2 == addOrGet(policy, st, key, next)
    IN  [ cache |-> st2.cache, timers |-> st2.timers,
          result |-> ~alreadyPresent, caught |-> TRUE ]

\* The reaction that keeps every failed entry.
reactionKeepsFailed(policy, st, key, status, error) ==
    IF status = "fulfilled"
    THEN Store(st.cache, gcUpdate(policy, st.timers, key))
    ELSE st

\* The then and catch callbacks addOrGet put on the promise it stored at
\* key: gc.update(key) after a fulfilment; after a rejection, remove(key)
\* if removeOnError(error).
reaction(policy, st, key, status, error) ==
    IF status = "fulfilled"
    THEN Store(st.cache, gcUpdate(policy, st.timers, key))
    ELSE IF removeOnError(error)
         THEN remove(st, key)
         ELSE st

NoCacheOp ==
    [ op |-> "none", key |-> "", wasPresent |-> FALSE, previous |-> NoPromise,
      computed |-> FALSE, returned |-> NoPromise, result |-> FALSE,
      caught |-> FALSE ]

CacheInit ==
    /\ expiry \in Policies
    /\ cache = [ k \in Keys |-> NoPromise ]
    /\ promises = <<>>
    /\ timers = <<>>
    /\ microtasks = <<>>
    /\ lastOp = NoCacheOp

\* addOrGet that lets what asyncFn throws escape: nothing is stored and no
\* reaction is queued.
AddOrGetThrowEscapes(key, kind, error) ==
    LET st == Store(cache, timers)
        miss == ~has(st, key)
        next == Len(promises) + 1
        st2 == IF miss /\ kind = "throws"
               THEN get(expiry, st, key)
               ELSE addOrGet(expiry, st, key, next)
    IN  /\ miss => Len(promises) < MaxComputes
        /\ ~miss => (kind = "async" /\ error = "E1")
        /\ kind = "async" => error = "E1"
        /\ cache' = st2.cache
        /\ timers' = st2.timers
        /\ promises' =
              IF miss
              THEN Append(promises,
                          IF kind = "async" THEN Promise(key, "pending", "")
                          ELSE Promise(key, "rejected", error))
              ELSE promises
        /\ microtasks' = microtasks
        /\ lastOp' = [ op |-> "addOrGet", key |-> key, wasPresent |-> ~miss,
                       previous |-> cache[key], computed |-> miss,
                       returned |-> IF miss THEN next ELSE cache[key],
                       result |-> FALSE, caught |-> FALSE ]
        /\ UNCHANGED <<expiry, codecVars, brokerVars, cache2Vars, contextsVars, lockVars, mapVars>>

\* The host calls cache.addOrGet(key, asyncFn).  asyncFn, if it is called,
\* returns a promise that is pending ("async") or throws ("throws"), which
\* makes the promise of safeAsyncFn a rejected one.
AddOrGet(key, kind, error) ==
    LET st == Store(cache, timers)
        miss == ~has(st, key)
        next == Len(promises) + 1
        st2 == addOrGet(expiry, st, key, next)
    IN  /\ miss => Len(promises) < MaxComputes
        /\ ~miss => (kind = "async" /\ error = "E1")
        /\ kind = "async" => error = "E1"
        /\ cache' = st2.cache
        /\ timers' = st2.timers
        /\ promises' =
              IF miss
              THEN Append(promises,
                          IF kind = "async" THEN Promise(key, "pending", "")
                          ELSE Promise(key, "rejected", error))
              ELSE promises
        /\ microtasks' =
              IF miss /\ kind = "throws" THEN Append(microtasks, next)
              ELSE microtasks
        /\ lastOp' = [ op |-> "addOrGet", key |-> key, wasPresent |-> ~miss,
                       previous |-> cache[key], computed |-> miss,
                       returned |-> IF miss THEN next ELSE cache[key],
                       result |-> FALSE, caught |-> FALSE ]
        /\ UNCHANGED <<expiry, codecVars, brokerVars, cache2Vars, contextsVars, lockVars, mapVars>>

\* The host calls cache.add(key, asyncFn), with an asyncFn as for addOrGet.
Add(key, kind, error) ==
    LET st == Store(cache, timers)
        miss == ~has(st, key)
        next == Len(promises) + 1
        st2 == add(expiry, st, key, next)
    IN  /\ miss => Len(promises) < MaxComputes
        /\ ~miss => (kind = "async" /\ error = "E1")
        /\ kind = "async" => error = "E1"
        /\ cache' = st2.cache
        /\ timers' = st2.timers
        /\ promises' =
              IF miss
              THEN Append(promises,
                          IF kind = "async" THEN Promise(key, "pending", "")
                          ELSE Promise(key, "rejected", error))
              ELSE promises
        /\ microtasks' =
              IF miss /\ kind = "throws" THEN Append(microtasks, next)
              ELSE microtasks
        /\ lastOp' = [ op |-> "add", key |-> key, wasPresent |-> ~miss,
                       previous |-> cache[key], computed |-> miss,
                       returned |-> NoPromise,
                       result |-> st2.result, caught |-> st2.caught ]
        /\ UNCHANGED <<expiry, codecVars, brokerVars, cache2Vars, contextsVars, lockVars, mapVars>>

\* The host calls cache.get(key).
CacheGet(key) ==
    LET st == Store(cache, timers)
        st2 == get(expiry, st, key)
    IN  /\ cache' = st2.cache
        /\ timers' = st2.timers
        /\ lastOp' = [ op |-> "get", key |-> key, wasPresent |-> has(st, key),
                       previous |-> cache[key], computed |-> FALSE,
                       returned |-> st2.cache[key], result |-> FALSE,
                       caught |-> FALSE ]
        /\ UNCHANGED <<expiry, promises, microtasks, codecVars, brokerVars, cache2Vars, contextsVars, lockVars, mapVars>>

\* has that extends the expiry of the entry it finds, as get does.
HasExtends(key) ==
    LET st == Store(cache, timers)
        st2 == get(expiry, st, key)
    IN  /\ cache' = st2.cache
        /\ timers' = st2.timers
        /\ lastOp' = [ op |-> "has", key |-> key,
                       wasPresent |-> has(st, key),
                       previous |-> cache[key], computed |-> FALSE,
                       returned |-> NoPromise,
                       result |-> has(st, key),
                       caught |-> FALSE ]
        /\ UNCHANGED <<expiry, promises, microtasks, codecVars, brokerVars, cache2Vars, contextsVars, lockVars, mapVars>>

\* The host calls cache.has(key).
Has(key) ==
    /\ lastOp' = [ op |-> "has", key |-> key,
                   wasPresent |-> has(Store(cache, timers), key),
                   previous |-> cache[key], computed |-> FALSE,
                   returned |-> NoPromise,
                   result |-> has(Store(cache, timers), key),
                   caught |-> FALSE ]
    /\ UNCHANGED <<expiry, cache, promises, timers, microtasks, codecVars, brokerVars, cache2Vars, contextsVars, lockVars, mapVars>>

\* The host calls cache.remove(key).
Remove(key) ==
    LET st == Store(cache, timers)
        st2 == remove(st, key)
    IN  /\ cache' = st2.cache
        /\ timers' = st2.timers
        /\ lastOp' = [ op |-> "remove", key |-> key, wasPresent |-> has(st, key),
                       previous |-> cache[key], computed |-> FALSE,
                       returned |-> NoPromise, result |-> has(st, key),
                       caught |-> FALSE ]
        /\ UNCHANGED <<expiry, promises, microtasks, codecVars, brokerVars, cache2Vars, contextsVars, lockVars, mapVars>>

\* The work behind promise p ends: the promise is fulfilled, or rejected with
\* an error, and the cache's reaction to it is queued.
Settle(p, status, error) ==
    /\ p \in 1..Len(promises)
    /\ promises[p].status = "pending"
    /\ status = "fulfilled" => error = ""
    /\ status = "rejected" => error \in Errors
    /\ promises' = [ promises EXCEPT ![p] = Promise(@.key, status, error) ]
    /\ microtasks' = Append(microtasks, p)
    /\ lastOp' = [ NoCacheOp EXCEPT !.op = "settle" ]
    /\ UNCHANGED <<expiry, cache, timers, codecVars, brokerVars, cache2Vars, contextsVars, lockVars, mapVars>>

\* The reaction addOrGet attached to the promise at the head of the queue
\* runs: gc.update(key) after a fulfilment; after a rejection, remove(key)
\* if removeOnError(error).
RunReaction ==
    /\ microtasks # <<>>
    /\ LET p == Head(microtasks)
           key == promises[p].key
           st == Store(cache, timers)
           st2 == reaction(expiry, st, key, promises[p].status, promises[p].error)
       IN  /\ cache' = st2.cache
           /\ timers' = st2.timers
           /\ lastOp' = [ NoCacheOp EXCEPT !.op = "reaction" ]
    /\ microtasks' = Tail(microtasks)
    /\ UNCHANGED <<expiry, promises, codecVars, brokerVars, cache2Vars, contextsVars, lockVars, mapVars>>

\* One tick of time passes: no microtask is queued and no timer is due.
Tick ==
    /\ microtasks = <<>>
    /\ timers # <<>>
    /\ \A i \in 1..Len(timers) : timers[i].left > 0
    /\ timers' = [ i \in 1..Len(timers) |-> [ timers[i] EXCEPT !.left = @ - 1 ] ]
    /\ lastOp' = [ NoCacheOp EXCEPT !.op = "tick" ]
    /\ UNCHANGED <<expiry, cache, promises, microtasks, codecVars, brokerVars, cache2Vars, contextsVars, lockVars, mapVars>>

\* The timer that is due first fires: its callback calls cleanup(key), which
\* is cache.remove(key), and then gc.cancel(key).
Fire ==
    /\ microtasks = <<>>
    /\ timers # <<>>
    /\ Head(timers).left = 0
    /\ LET key == Head(timers).key
           st == Store(cache, Tail(timers))
           st2 == remove(st, key)
       IN  /\ cache' = st2.cache
           /\ timers' = gcCancel(st2.timers, key)
           /\ lastOp' = [ NoCacheOp EXCEPT !.op = "expire" ]
    /\ UNCHANGED <<expiry, promises, microtasks, codecVars, brokerVars, cache2Vars, contextsVars, lockVars, mapVars>>

\* The keys are interchangeable: the host takes a key the cache has not
\* computed for yet in the order of KeyOrder.
Computed == { promises[p].key : p \in 1..Len(promises) }

Usable ==
    { KeyOrder[i] : i \in { j \in 1..Len(KeyOrder) :
                              \A h \in 1..(j - 1) : KeyOrder[h] \in Computed } }

CacheNext ==
    \/ \E key \in Usable, kind \in {"async", "throws"}, error \in Errors :
          AddOrGet(key, kind, error)
    \/ \E key \in Usable, kind \in {"async", "throws"}, error \in Errors :
          Add(key, kind, error)
    \/ \E key \in Usable : CacheGet(key)
    \/ \E key \in Usable : Has(key)
    \/ \E key \in Usable : Remove(key)
    \/ \E p \in 1..MaxComputes : Settle(p, "fulfilled", "")
    \/ \E p \in 1..MaxComputes, error \in Errors : Settle(p, "rejected", error)
    \/ RunReaction
    \/ Tick
    \/ Fire

-----------------------------------------------------------------------------
(***************************************************************************)
(* PromiseCache2, the cache whose methods are all async                    *)
(*                                                                         *)
(* has, get and remove are async functions without an await: their bodies  *)
(* run when they are called.  addOrGet and add start with await            *)
(* this.has(key): has reads the map when it is called, and the caller goes *)
(* on in a later microtask with the value has read.  Microtasks run in the *)
(* order they were queued; the host's calls can come between them.  has    *)
(* and get change nothing and are not actions of the model.                *)
(***************************************************************************)
MaxCalls == 3

\* A call of addOrGet or add: op and key; at, the await it is suspended at
\* ("add:has": add's await this.has, "has": addOrGet's await this.has) or
\* "done"; present, what has returned to it; result, the promise addOrGet
\* returned; added, what add returned; with, the addOrGet calls for the
\* same key that were suspended, having found no entry, when this addOrGet
\* was called.
Call(op, key, at, present) ==
    [ op |-> op, key |-> key, at |-> at, present |-> present,
      result |-> NoPromise, added |-> FALSE, with |-> {} ]

Resume(c) == [ kind |-> "resume", id |-> c ]

Catch(p) == [ kind |-> "catch", id |-> p ]

\* The addOrGet calls for key that are suspended at await this.has(key) and
\* were told that the key has no entry.
SuspendedAbsent(key) ==
    { c \in 1..Len(calls) :
        calls[c].at = "has" /\ calls[c].key = key /\ ~calls[c].present }

Cache2Init ==
    /\ cache2 = [ k \in Keys |-> NoPromise ]
    /\ calls = <<>>
    /\ asyncFns = <<>>
    /\ jobs = <<>>

\* The host calls cache.addOrGet(key, asyncFn): the call runs this.has(key)
\* and is suspended.
AddOrGet2(key) ==
    /\ Len(calls) < MaxCalls
    /\ calls' = Append(calls,
                       [ Call("addOrGet", key, "has", cache2[key] # NoPromise)
                           EXCEPT !.with = SuspendedAbsent(key) ])
    /\ jobs' = Append(jobs, Resume(Len(calls) + 1))
    /\ UNCHANGED <<cache2, asyncFns, codecVars, brokerVars, cacheVars, contextsVars, lockVars, mapVars>>

\* The host calls cache.add(key, asyncFn): the call runs this.has(key) and
\* is suspended.
Add2(key) ==
    /\ Len(calls) < MaxCalls
    /\ calls' = Append(calls, Call("add", key, "add:has", cache2[key] # NoPromise))
    /\ jobs' = Append(jobs, Resume(Len(calls) + 1))
    /\ UNCHANGED <<cache2, asyncFns, codecVars, brokerVars, cacheVars, contextsVars, lockVars, mapVars>>

\* addOrGet goes on after await this.has(key).  Told that the key has an
\* entry, it returns what this.get(key) reads now; told that it has none, it
\* calls asyncFn, stores the promise, puts the catch on it and returns it.
ResumeAddOrGet(c) ==
    LET key == calls[c].key
        next == Len(asyncFns) + 1
    IN  IF calls[c].present
        THEN /\ calls' = [ calls EXCEPT ![c].at = "done", ![c].result = cache2[key] ]
             /\ UNCHANGED <<cache2, asyncFns>>
        ELSE /\ asyncFns' = Append(asyncFns, Promise(key, "pending", ""))
             /\ cache2' = [ cache2 EXCEPT ![key] = next ]
             /\ calls' = [ calls EXCEPT ![c].at = "done", ![c].result = next ]

\* The call at the head of the microtask queue goes on.  add, after its
\* await this.has(key), calls this.addOrGet(key, asyncFn), which runs
\* this.has(key) and is suspended, and returns !alreadyPresent.
ResumeCall ==
    /\ jobs # <<>>
    /\ Head(jobs).kind = "resume"
    /\ LET c == Head(jobs).id
       IN  IF calls[c].at = "add:has"
           THEN /\ calls' = [ calls EXCEPT
                                ![c].at = "has",
                                ![c].added = ~calls[c].present,
                                ![c].present = cache2[calls[c].key] # NoPromise,
                                ![c].with = SuspendedAbsent(calls[c].key) ]
                /\ jobs' = Append(Tail(jobs), Resume(c))
                /\ UNCHANGED <<cache2, asyncFns>>
           ELSE /\ ResumeAddOrGet(c)
                /\ jobs' = Tail(jobs)
    /\ UNCHANGED <<codecVars, brokerVars, cacheVars, contextsVars, lockVars, mapVars>>

\* The host calls cache.remove(key).
Remove2(key) ==
    /\ cache2[key] # NoPromise
    /\ cache2' = [ cache2 EXCEPT ![key] = NoPromise ]
    /\ UNCHANGED <<calls, asyncFns, jobs, codecVars, brokerVars, cacheVars, contextsVars, lockVars, mapVars>>

\* The work behind promise p ends; a rejection queues the catch callback.
Settle2(p, status, error) ==
    /\ p \in 1..Len(asyncFns)
    /\ asyncFns[p].status = "pending"
    /\ status = "fulfilled" => error = ""
    /\ status = "rejected" => error \in Errors
    /\ asyncFns' = [ asyncFns EXCEPT ![p] = Promise(@.key, status, error) ]
    /\ jobs' = IF status = "rejected" THEN Append(jobs, Catch(p)) ELSE jobs
    /\ UNCHANGED <<cache2, calls, codecVars, brokerVars, cacheVars, contextsVars, lockVars, mapVars>>

\* The catch callback at the head of the microtask queue runs:
\* this.remove(key) if removeOnError(error).
RunCatch ==
    /\ jobs # <<>>
    /\ Head(jobs).kind = "catch"
    /\ LET p == Head(jobs).id
       IN  cache2' = IF removeOnError(asyncFns[p].error)
                     THEN [ cache2 EXCEPT ![asyncFns[p].key] = NoPromise ]
                     ELSE cache2
    /\ jobs' = Tail(jobs)
    /\ UNCHANGED <<calls, asyncFns, codecVars, brokerVars, cacheVars, contextsVars, lockVars, mapVars>>

Cache2Next ==
    \/ \E key \in Keys : AddOrGet2(key)
    \/ \E key \in Keys : Add2(key)
    \/ ResumeCall
    \/ \E key \in Keys : Remove2(key)
    \/ \E p \in 1..MaxCalls : Settle2(p, "fulfilled", "")
    \/ \E p \in 1..MaxCalls, error \in Errors : Settle2(p, "rejected", error)
    \/ RunCatch

-----------------------------------------------------------------------------
(***************************************************************************)
(* DataStoreContexts                                                       *)
(*                                                                         *)
(* pendingBindPs is a PromiseCache with the default options (indefinite    *)
(* policy).  waitForContextBind(id)() returns a new promise and registers  *)
(* a listener of "bind" that resolves it; emit calls the listeners before  *)
(* it returns.  A failing assert throws before the method has changed      *)
(* anything, so a call whose assert fails is not a step.                   *)
(***************************************************************************)
DataStoreIds == {"d1", "d2"}

\* The FluidDataStoreContext objects: two for each id.
Context(id, n) == [ id |-> id, n |-> n ]

NoContext == Context("", 0)

ContextsOf(id) == { Context(id, 1), Context(id, 2) }

\* allContexts.get(id) of an id without an entry.
NoEntry == [ context |-> NoContext, bound |-> FALSE ]

\* The promise of a wait: the id it waits for, and the context it was
\* resolved with.
Bind(id, status, context) == [ id |-> id, status |-> status, context |-> context ]

ContextsInit ==
    /\ contexts = [ id \in DataStoreIds |-> NoContext ]
    /\ allContexts = [ id \in DataStoreIds |-> NoEntry ]
    /\ notBoundContexts = {}
    /\ contextsDeferred = [ id \in DataStoreIds |-> "none" ]
    /\ pendingBindPs = [ id \in DataStoreIds |-> NoPromise ]
    /\ binds = <<>>
    /\ got = [ id \in DataStoreIds |-> NoPromise ]

\* getContextUponBinding(id): pendingBindPs.addOrGet(id, waitForContextBind(id)).
\* The wait starts, and its listener is registered, when addOrGet finds no
\* entry.
GetContextUponBinding(id) ==
    LET next == Len(binds) + 1
        st2 == addOrGet("indefinite", Store(pendingBindPs, <<>>), id, next)
    IN  /\ pendingBindPs' = st2.cache
        /\ binds' = IF pendingBindPs[id] = NoPromise
                     THEN Append(binds, Bind(id, "pending", NoContext))
                     ELSE binds
        /\ got' = [ got EXCEPT ![id] = st2.cache[id] ]
        /\ UNCHANGED <<contexts, allContexts, notBoundContexts, contextsDeferred>>
        /\ UNCHANGED <<codecVars, brokerVars, cacheVars, cache2Vars, lockVars, mapVars>>

\* setupNew(context): registers the context as not bound, and
\* addPendingBind(id) is pendingBindPs.add(id, waitForContextBind(id)).
SetupNew(context) ==
    LET id == context.id
        next == Len(binds) + 1
        st2 == add("indefinite", Store(pendingBindPs, <<>>), id, next)
    IN  /\ contexts[id] = NoContext
        /\ notBoundContexts' = notBoundContexts \cup {id}
        /\ contextsDeferred' = [ contextsDeferred EXCEPT ![id] = "pending" ]
        /\ contexts' = [ contexts EXCEPT ![id] = context ]
        /\ allContexts' = [ allContexts EXCEPT
                               ![id] = [ context |-> context, bound |-> FALSE ] ]
        /\ pendingBindPs' = st2.cache
        /\ binds' = IF pendingBindPs[id] = NoPromise
                     THEN Append(binds, Bind(id, "pending", NoContext))
                     ELSE binds
        /\ UNCHANGED got
        /\ UNCHANGED <<codecVars, brokerVars, cacheVars, cache2Vars, lockVars, mapVars>>

\* notifyOnBind(id): emit("bind", { id }) runs the listeners of the waits
\* for id, which mark the context bound and resolve their promise with it;
\* then notifyOnBind marks the context bound.
NotifyOnBind(id) ==
    /\ allContexts[id] # NoEntry
    /\ ~allContexts[id].bound
    /\ binds' = [ w \in 1..Len(binds) |->
                    IF binds[w].id = id /\ binds[w].status = "pending"
                    THEN Bind(id, "fulfilled", allContexts[id].context)
                    ELSE binds[w] ]
    /\ allContexts' = [ allContexts EXCEPT ![id].bound = TRUE ]
    /\ UNCHANGED <<contexts, notBoundContexts, contextsDeferred, pendingBindPs, got>>
    /\ UNCHANGED <<codecVars, brokerVars, cacheVars, cache2Vars, lockVars, mapVars>>

\* setNew(id, context): registers the context as bound, and resolves the
\* Deferred of the id, making it if there is none (ensureDeferred).
SetNew(id, context) ==
    /\ context # NoContext
    /\ id = context.id
    /\ contexts[id] = NoContext
    /\ contexts' = [ contexts EXCEPT ![id] = context ]
    /\ contextsDeferred' = [ contextsDeferred EXCEPT ![id] = "resolved" ]
    /\ allContexts' = [ allContexts EXCEPT
                           ![id] = [ context |-> context, bound |-> TRUE ] ]
    /\ UNCHANGED <<notBoundContexts, pendingBindPs, binds, got>>
    /\ UNCHANGED <<codecVars, brokerVars, cacheVars, cache2Vars, lockVars, mapVars>>

ContextsNext ==
    \/ \E id \in DataStoreIds : GetContextUponBinding(id)
    \/ \E id \in DataStoreIds : \E context \in ContextsOf(id) : SetupNew(context)
    \/ \E id \in DataStoreIds : NotifyOnBind(id)
    \/ \E id \in DataStoreIds : \E context \in ContextsOf(id) : SetNew(id, context)

-----------------------------------------------------------------------------
(***************************************************************************)
(* DemoWithUnderlyingAsyncStore: the per-key lock                          *)
(*                                                                         *)
(* remove and addOrGet take the lock of their key with await               *)
(* this.lock(key) and call lock.release() when they are done.  lock runs   *)
(* to its return when it is called: it takes the lock with lockNow, or     *)
(* registers a listener of "lockRelease" and a timeout.  release deletes   *)
(* the key from heldLockIds and emits "lockRelease"; emit calls the        *)
(* listeners in the order they were registered, and what a listener throws *)
(* leaves emit.  No listener is ever removed.                              *)
(***************************************************************************)
MaxLockers == 3

NoLock == 0

\* A lock(key) call: whether it registered a listener, where it stands
\* ("waiting", "holding", "released", or "rejected" by its timeout), and
\* the lockId of the lock it was given.
Locker(key, listens, status, lockId) ==
    [ key |-> key, listens |-> listens, status |-> status, lockId |-> lockId ]

\* The lock as a value: heldLockIds, nextLockId, the calls, and whether an
\* assert of lockNow has failed.
LockState(held, next, ls, failed) ==
    [ held |-> held, next |-> next, lockers |-> ls, failed |-> failed ]

\* lockNow(key) called for call c: the assert, ++nextLockId,
\* heldLockIds.set; then the promise of c is resolved with the lock, which
\* does nothing if it is not pending.
lockNow(st, key, c) ==
    IF st.held[key] # NoLock
    THEN [ st EXCEPT !.failed = TRUE ]
    ELSE [ st EXCEPT !.next = @ + 1,
                     !.held[key] = st.next + 1,
                     !.lockers[c] = IF @.status = "waiting"
                                    THEN Locker(key, @.listens, "holding", st.next + 1)
                                    ELSE @ ]

\* emit("lockRelease", key): the listeners from the c-th call on, in order.
\* A listener registered for the key calls lockNow(key); a failed assert
\* ends the emit.
RECURSIVE RunListeners(_, _, _)
RunListeners(st, c, key) ==
    IF c > Len(st.lockers) \/ st.failed
    THEN st
    ELSE RunListeners(
            IF st.lockers[c].listens /\ st.lockers[c].key = key
            THEN lockNow(st, key, c)
            ELSE st,
            c + 1, key)

LockInit ==
    /\ heldLockIds = [ k \in Keys |-> NoLock ]
    /\ nextLockId = 0
    /\ lockers = <<>>
    /\ assertFailed = FALSE

\* A caller calls this.lock(key).
Lock(key) ==
    /\ Len(lockers) < MaxLockers
    /\ LET c == Len(lockers) + 1
           st == LockState(heldLockIds, nextLockId,
                           Append(lockers, Locker(key, heldLockIds[key] # NoLock,
                                                  "waiting", NoLock)),
                           FALSE)
           st2 == IF heldLockIds[key] = NoLock THEN lockNow(st, key, c) ELSE st
       IN  /\ heldLockIds' = st2.held
           /\ nextLockId' = st2.next
           /\ lockers' = st2.lockers
           /\ assertFailed' = (assertFailed \/ st2.failed)
    /\ UNCHANGED <<codecVars, brokerVars, cacheVars, cache2Vars, contextsVars, mapVars>>

\* The caller that holds the lock of call c calls lock.release().
Release(c) ==
    /\ c \in 1..Len(lockers)
    /\ lockers[c].status = "holding"
    /\ LET key == lockers[c].key
           st == LockState([ heldLockIds EXCEPT ![key] = NoLock ], nextLockId,
                           [ lockers EXCEPT ![c].status = "released" ], FALSE)
           st2 == RunListeners(st, 1, key)
       IN  /\ heldLockIds' = st2.held
           /\ nextLockId' = st2.next
           /\ lockers' = st2.lockers
           /\ assertFailed' = (assertFailed \/ st2.failed)
    /\ UNCHANGED <<codecVars, brokerVars, cacheVars, cache2Vars, contextsVars, mapVars>>

\* The timeout of a waiting call rejects its promise.
LockTimeout(c) ==
    /\ c \in 1..Len(lockers)
    /\ lockers[c].status = "waiting"
    /\ lockers' = [ lockers EXCEPT ![c].status = "rejected" ]
    /\ UNCHANGED <<heldLockIds, nextLockId, assertFailed>>
    /\ UNCHANGED <<codecVars, brokerVars, cacheVars, cache2Vars, contextsVars, mapVars>>

LockNext ==
    \/ \E key \in Keys : Lock(key)
    \/ \E c \in 1..MaxLockers : Release(c)
    \/ \E c \in 1..MaxLockers : LockTimeout(c)

-----------------------------------------------------------------------------
(***************************************************************************)
(* MapWithExpiration                                                       *)
(*                                                                         *)
(* Every timeout is set for expiration.durationMs, so the pending timeouts *)
(* fire in the order they were set.  scheduleExpiration is called by       *)
(* resetExpiration only, after cancelExpiration: a key has one pending     *)
(* timeout at most, the one expirationTimeouts holds.                      *)
(***************************************************************************)
Values == {1, 2}

NoValue == 0

\* The map as a value: the entries and the pending timeouts.
MapState(es, ts) == [ entries |-> es, timeouts |-> ts ]

\* cancelExpiration(key).
cancelExpiration(m, key) ==
    LET other(k) == k # key
    IN  MapState(m.entries, SelectSeq(m.timeouts, other))

\* scheduleExpiration(key, expiryMs).
scheduleExpiration(m, key) == MapState(m.entries, Append(m.timeouts, key))

\* resetExpiration(key).
resetExpiration(policy, m, key) ==
    IF policy # "indefinite"
    THEN scheduleExpiration(cancelExpiration(m, key), key)
    ELSE cancelExpiration(m, key)

\* get(key): the state it leaves; it returns m.entries[key].
mapGet(policy, m, key) ==
    IF policy = "sliding" THEN resetExpiration(policy, m, key) ELSE m

\* set(key, value).
mapSet(policy, m, key, value) ==
    LET m1 == resetExpiration(policy, m, key)
    IN  MapState([ m1.entries EXCEPT ![key] = value ], m1.timeouts)

\* delete(key).
mapDelete(m, key) ==
    LET m1 == cancelExpiration(m, key)
    IN  MapState([ m1.entries EXCEPT ![key] = NoValue ], m1.timeouts)

\* The forEach of dispose: cancelExpiration for the keys of the entries,
\* from the i-th key of KeyOrder on.
RECURSIVE cancelEntries(_, _)
cancelEntries(m, i) ==
    IF i > Len(KeyOrder)
    THEN m
    ELSE cancelEntries(IF m.entries[KeyOrder[i]] # NoValue
                       THEN cancelExpiration(m, KeyOrder[i])
                       ELSE m,
                       i + 1)

MapInit ==
    /\ expiration \in Policies
    /\ entries = [ k \in Keys |-> NoValue ]
    /\ expirationTimeouts = <<>>
    /\ disposed = FALSE

\* The host calls map.set(key, value).
MapSet(key, value) ==
    /\ LET m == mapSet(expiration, MapState(entries, expirationTimeouts), key, value)
       IN  /\ entries' = m.entries
           /\ expirationTimeouts' = m.timeouts
    /\ UNCHANGED <<expiration, disposed>>
    /\ UNCHANGED <<codecVars, brokerVars, cacheVars, cache2Vars, contextsVars, lockVars>>

\* The host calls map.get(key).
MapGet(key) ==
    /\ LET m == mapGet(expiration, MapState(entries, expirationTimeouts), key)
       IN  /\ entries' = m.entries
           /\ expirationTimeouts' = m.timeouts
    /\ UNCHANGED <<expiration, disposed>>
    /\ UNCHANGED <<codecVars, brokerVars, cacheVars, cache2Vars, contextsVars, lockVars>>

\* The host calls map.delete(key).
MapDelete(key) ==
    /\ LET m == mapDelete(MapState(entries, expirationTimeouts), key)
       IN  /\ entries' = m.entries
           /\ expirationTimeouts' = m.timeouts
    /\ UNCHANGED <<expiration, disposed>>
    /\ UNCHANGED <<codecVars, brokerVars, cacheVars, cache2Vars, contextsVars, lockVars>>

\* The timeout that was set first fires: its callback calls this.delete(key).
MapExpire ==
    /\ expirationTimeouts # <<>>
    /\ LET m == mapDelete(MapState(entries, Tail(expirationTimeouts)),
                          Head(expirationTimeouts))
       IN  /\ entries' = m.entries
           /\ expirationTimeouts' = m.timeouts
    /\ UNCHANGED <<expiration, disposed>>
    /\ UNCHANGED <<codecVars, brokerVars, cacheVars, cache2Vars, contextsVars, lockVars>>

\* The host calls map.dispose().
MapDispose ==
    /\ ~disposed
    /\ disposed' = TRUE
    /\ expirationTimeouts' =
          cancelEntries(MapState(entries, expirationTimeouts), 1).timeouts
    /\ UNCHANGED <<expiration, entries>>
    /\ UNCHANGED <<codecVars, brokerVars, cacheVars, cache2Vars, contextsVars, lockVars>>

MapNext ==
    \/ \E key \in Keys, value \in Values : MapSet(key, value)
    \/ \E key \in Keys : MapGet(key)
    \/ \E key \in Keys : MapDelete(key)
    \/ MapExpire
    \/ MapDispose

-----------------------------------------------------------------------------
(***************************************************************************)
(* Properties of OpGroupingManager                                         *)
(***************************************************************************)
\* A metadata value groupBatch accepts: none, or an object whose only
\* possible key is "batch".
ValidMetadata(message) ==
    \/ message.metadata = Undefined
    \/ /\ message.metadata.k = "object"
       /\ DOMAIN message.metadata.o \subseteq {"batch"}

AllValid(b) == \A i \in 1..Len(b.content) : ValidMetadata(b.content[i])

\* The outcome is a batch of one record that is an envelope.
IsEnvelope(outcome) ==
    /\ ~outcome.threw
    /\ Len(outcome.value.content) = 1
    /\ outcome.value.content[1].type = groupedBatchOp

\* What a receiver sees of a record's contents: the parsed JSON text.
ParsedContents(message) ==
    IF message.contents = Undefined THEN Undefined ELSE message.contents.j

\* C7. Grouping round trip: for a batch of N >= 2 records with valid
\* metadata and grouping enabled, ungroupOp of the received form of the one
\* record groupBatch produced yields N records whose contents, metadata and
\* compression are those of the original records, in the original order.
C7_RoundTrip ==
    (cphase = "ungrouped" /\ sentIndex = 1 /\ enabled /\ Len(batch.content) >= 2)
    => /\ Len(ungrouped) = Len(batch.content)
       /\ \A i \in 1..Len(batch.content) :
             /\ ungrouped[i].contents = ParsedContents(batch.content[i])
             /\ ungrouped[i].metadata = batch.content[i].metadata
             /\ ungrouped[i].compression = batch.content[i].compression

\* A batch of three records, one without contents, one compressed, one with
\* batch metadata, has gone through groupBatch, the wire and ungroupOp.
C7_Witness ==
    /\ cphase = "ungrouped" /\ sentIndex = 1 /\ enabled
    /\ Len(batch.content) = 3
    /\ Len(ungrouped) = 3
    /\ batch.content[1].contents = Undefined
    /\ batch.content[2].compression = Str("lz4")
    /\ batch.content[3].metadata = Obj([batch |-> Bool(TRUE)])

\* C8 as stated: groupBatch returns its input unchanged exactly when the
\* batch has fewer than 2 records or grouping is disabled, and produces an
\* envelope exactly when length >= 2 and grouping is enabled.
C8_Original ==
    cphase = "grouped"
    => /\ (grouped = Returned(batch)) <=> (Len(batch.content) < 2 \/ ~enabled)
       /\ IsEnvelope(grouped) <=> (Len(batch.content) >= 2 /\ enabled)

\* C8, amended. groupBatch returns its input unchanged exactly when the
\* batch has fewer than 2 records or grouping is disabled, whatever the
\* records' metadata; it produces an envelope exactly when length >= 2,
\* grouping is enabled and every record's metadata is valid, and fails
\* otherwise.
C8_GroupsExactlyWhen ==
    cphase = "grouped"
    => /\ (grouped = Returned(batch)) <=> (Len(batch.content) < 2 \/ ~enabled)
       /\ IsEnvelope(grouped)
            <=> (Len(batch.content) >= 2 /\ enabled /\ AllValid(batch))
       /\ grouped.threw
            <=> (Len(batch.content) >= 2 /\ enabled /\ ~AllValid(batch))

\* groupBatch has turned a batch of two records into an envelope.
C8_Witness ==
    /\ cphase = "grouped"
    /\ Len(batch.content) = 2
    /\ enabled
    /\ IsEnvelope(grouped)

\* C9 as stated: any batch holding a record with two or more metadata keys,
\* or one key other than "batch", makes groupBatch fail.
C9_Original ==
    (cphase = "grouped" /\ ~AllValid(batch)) => grouped.threw

\* C9, amended.  A batch of two or more records, with grouping enabled, that
\* holds a record with two or more metadata keys, or one key other than
\* "batch", makes groupBatch fail with an assertion error; and no batch with
\* such a record ever yields an envelope.
C9_RejectsBadMetadata ==
    (cphase = "grouped" /\ ~AllValid(batch))
    => /\ ~IsEnvelope(grouped)
       /\ (Len(batch.content) >= 2 /\ enabled)
            => (grouped.threw /\ grouped.error \in {"0x5dd", "0x5de"})

\* groupBatch has failed on a batch whose only bad record has the single
\* key "other".
C9_Witness ==
    /\ cphase = "grouped"
    /\ grouped.threw
    /\ grouped.error = "0x5de"

\* The received contents carry the marker: an object whose type is
\* "groupedBatch".
CarriesMarker(contents) ==
    /\ contents.k = "object"
    /\ "type" \in DOMAIN contents.o
    /\ contents.o["type"] = Str(groupedBatchOp)

\* C10. Ungroup pass-through: for a received record whose contents do not
\* carry type "groupedBatch" (undefined contents included), ungroupOp returns
\* a list of that one record, unmodified.
C10_PassThrough ==
    (cphase = "ungrouped" /\ ~CarriesMarker(received.contents))
    => ungrouped = << received >>

\* ungroupOp has passed through a record of another sender whose contents
\* are an object without the marker.
C10_Witness ==
    /\ cphase = "ungrouped"
    /\ received.contents = Obj([contents |-> Arr(<< Obj([contents |-> Str("a")]) >>)])
    /\ ungrouped = << received >>

\* The elements of the envelope a received record holds.
Elements(op) == Get(op.contents, "contents").a

\* C11. ungroupOp on an envelope with k elements returns k records, in the
\* order of the elements; record i has clientSequenceNumber i (counted from
\* 1 anew in every call), the contents, metadata and compression of element
\* i, and every other field of the received envelope record.
C11_UngroupedRecords ==
    (cphase = "ungrouped" /\ isGroupContents(received.contents))
    => /\ Len(ungrouped) = Len(Elements(received))
       /\ \A i \in 1..Len(ungrouped) :
             /\ ungrouped[i].clientSequenceNumber = i
             /\ ungrouped[i].contents = Get(Elements(received)[i], "contents")
             /\ ungrouped[i].metadata = Get(Elements(received)[i], "metadata")
             /\ ungrouped[i].compression = Get(Elements(received)[i], "compression")
             /\ ungrouped[i].type = received.type
             /\ ungrouped[i].referenceSequenceNumber = received.referenceSequenceNumber
             /\ ungrouped[i].clientId = received.clientId
             /\ ungrouped[i].sequenceNumber = received.sequenceNumber

\* ungroupOp has split an envelope of three elements; the envelope record
\* itself came with another clientSequenceNumber.
C11_Witness ==
    /\ cphase = "ungrouped"
    /\ isGroupContents(received.contents)
    /\ Len(Elements(received)) = 3
    /\ Len(ungrouped) = 3
    /\ ungrouped[3].clientSequenceNumber = 3
    /\ received.clientSequenceNumber # 3

\* C12. When groupBatch groups a batch (N >= 2 records, grouping enabled,
\* it does not fail), the batch it returns has exactly one record: its type
\* is "groupedBatch", its metadata is undefined, its
\* referenceSequenceNumber is that of the first record of the input, and its
\* contents is JSON text of {type: "groupedBatch", contents: [N elements]}
\* where element i reads as the parsed contents, the metadata and the
\* compression of record i; the other fields of the batch are those of the
\* input, and the call leaves the input batch as it was.
C12_Envelope ==
    [][ (cphase = "input" /\ cphase' = "grouped" /\ ~grouped'.threw
         /\ Len(batch.content) >= 2 /\ enabled)
        => /\ batch' = batch
           /\ Len(grouped'.value.content) = 1
           /\ grouped'.value.contentSizeInBytes = batch.contentSizeInBytes
           /\ LET envelope == grouped'.value.content[1]
                  parsed == JSONparse(envelope.contents)
              IN  /\ envelope.type = groupedBatchOp
                  /\ envelope.metadata = Undefined
                  /\ envelope.localOpMetadata = Undefined
                  /\ envelope.referenceSequenceNumber =
                         batch.content[1].referenceSequenceNumber
                  /\ envelope.contents.k = "json"
                  /\ ObjectKeys(parsed) = {"type", "contents"}
                  /\ Get(parsed, "type") = Str(groupedBatchOp)
                  /\ Get(parsed, "contents").k = "array"
                  /\ Len(Get(parsed, "contents").a) = Len(batch.content)
                  /\ \A i \in 1..Len(batch.content) :
                        LET element == Get(parsed, "contents").a[i]
                        IN  /\ Get(element, "contents") =
                                   ParsedContents(batch.content[i])
                            /\ Get(element, "metadata") = batch.content[i].metadata
                            /\ Get(element, "compression") =
                                   batch.content[i].compression ]_vars

\* groupBatch has grouped three records whose referenceSequenceNumbers
\* differ, one of them compressed.
C12_Witness ==
    /\ cphase = "grouped"
    /\ enabled
    /\ Len(batch.content) = 3
    /\ IsEnvelope(grouped)
    /\ batch.content[1].referenceSequenceNumber # batch.content[2].referenceSequenceNumber
    /\ batch.content[3].compression = Str("lz4")
    /\ grouped.value.content[1].referenceSequenceNumber =
           batch.content[1].referenceSequenceNumber

-----------------------------------------------------------------------------
(***************************************************************************)
(* Specifications                                                          *)
(***************************************************************************)
CodecIdle ==
    /\ batch = NoBatch
    /\ enabled = FALSE
    /\ grouped = Returned(NoBatch)
    /\ received = NoOp
    /\ sentIndex = 0
    /\ ungrouped = <<>>
    /\ cphase = "input"

BrokerIdle ==
    /\ attached = [ b \in Brokers |-> FALSE ]
    /\ referencedBrokers = [ b \in Brokers |-> <<>> ]
    /\ pendingAttach = {}
    /\ lastCall = [ op |-> "none", broker |-> NoBroker, target |-> NoBroker,
                    wasAttached |-> FALSE,
                    targetWasAttached |-> FALSE, wasReferenced |-> FALSE,
                    threw |-> FALSE, thrower |-> NoBroker, emitted |-> <<>>,
                    heard |-> <<>>,
                    invoked |-> [ b \in Brokers |-> 0 ],
                    byPropagation |-> {}, setByPropagation |-> {} ]

CacheIdle ==
    /\ expiry = "indefinite"
    /\ cache = [ k \in Keys |-> NoPromise ]
    /\ promises = <<>>
    /\ timers = <<>>
    /\ microtasks = <<>>
    /\ lastOp = NoCacheOp

Cache2Idle ==
    /\ cache2 = [ k \in Keys |-> NoPromise ]
    /\ calls = <<>>
    /\ asyncFns = <<>>
    /\ jobs = <<>>

ContextsIdle ==
    /\ contexts = [ id \in DataStoreIds |-> NoContext ]
    /\ allContexts = [ id \in DataStoreIds |-> NoEntry ]
    /\ notBoundContexts = {}
    /\ contextsDeferred = [ id \in DataStoreIds |-> "none" ]
    /\ pendingBindPs = [ id \in DataStoreIds |-> NoPromise ]
    /\ binds = <<>>
    /\ got = [ id \in DataStoreIds |-> NoPromise ]

LockIdle ==
    /\ heldLockIds = [ k \in Keys |-> NoLock ]
    /\ nextLockId = 0
    /\ lockers = <<>>
    /\ assertFailed = FALSE

MapIdle ==
    /\ expiration = "indefinite"
    /\ entries = [ k \in Keys |-> NoValue ]
    /\ expirationTimeouts = <<>>
    /\ disposed = FALSE

\* Each specification runs one component; the others stay as constructed.
CodecStart == CodecInit /\ BrokerIdle /\ CacheIdle /\ Cache2Idle /\ ContextsIdle /\ LockIdle /\ MapIdle

BrokerStart == BrokerInit /\ CodecIdle /\ CacheIdle /\ Cache2Idle /\ ContextsIdle /\ LockIdle /\ MapIdle

CacheStart == CacheInit /\ CodecIdle /\ BrokerIdle /\ Cache2Idle /\ ContextsIdle /\ LockIdle /\ MapIdle

Cache2Start == Cache2Init /\ CodecIdle /\ BrokerIdle /\ CacheIdle /\ ContextsIdle /\ LockIdle /\ MapIdle

SpecCodec == CodecStart /\ [][CodecNext]_vars

SpecBroker == BrokerStart /\ [][BrokerNext]_vars

SpecCache == CacheStart /\ [][CacheNext]_vars

SpecCache2 == Cache2Start /\ [][Cache2Next]_vars

ContextsStart ==
    /\ ContextsInit /\ CodecIdle /\ BrokerIdle /\ CacheIdle /\ Cache2Idle
    /\ LockIdle /\ MapIdle

LockStart ==
    /\ LockInit /\ CodecIdle /\ BrokerIdle /\ CacheIdle /\ Cache2Idle
    /\ ContextsIdle /\ MapIdle

SpecLock == LockStart /\ [][LockNext]_vars

MapStart ==
    /\ MapInit /\ CodecIdle /\ BrokerIdle /\ CacheIdle /\ Cache2Idle
    /\ ContextsIdle /\ LockIdle

SpecMap == MapStart /\ [][MapNext]_vars

\* The host goes on calling for as long as a call can change something.
SpecContexts ==
    /\ ContextsStart
    /\ [][ContextsNext]_vars
    /\ WF_vars(ContextsNext)

\* A cache constructed with { policy: "absolute", durationMs: Duration }.
CacheStartAbsolute == CacheStart /\ expiry = "absolute"

SpecCacheAbsolute == CacheStartAbsolute /\ [][CacheNext]_vars

SpecBrokerSync == BrokerStart /\ [][BrokerNextSync]_vars

\* Every attachFn that was invoked and returned calls setAttached in the end.
SpecBrokerLive ==
    /\ BrokerStart
    /\ [][BrokerNextLive]_vars
    /\ WF_vars(\E b \in Brokers : CompleteAttach(LiveHost, b))

-----------------------------------------------------------------------------
(***************************************************************************)
(* Properties of ChannelAttachBroker                                       *)
(***************************************************************************)
\* The unattached brokers reachable from an attached broker.
Unresolved ==
    { b \in Brokers :
        /\ ~attached[b]
        /\ \E a \in Brokers : attached[a] /\ b \in ReachFrom(referencedBrokers, {a}) }

\* C2. Attachment closure: when every attachFn that is invoked calls
\* setAttached in the end, every broker reachable through referencedBrokers
\* from an attached broker is attached in the end, whatever the graph.
C2_AttachmentClosure ==
    \A b \in Brokers : (b \in Unresolved) ~> attached[b]

\* An unattached broker is reachable from an attached one only through a
\* broker whose attachFn has still to call setAttached: its own attachFn has
\* not been invoked yet.
C2_Witness ==
    \E b \in Unresolved :
        /\ b \notin pendingAttach
        /\ \A a \in Brokers : b \in Targets(referencedBrokers, a) => ~attached[a]

\* The brokers that have an attached broker, other than themselves, that
\* references them.
ReferencedByAttached ==
    { b \in Brokers :
        \E a \in Brokers \ {b} :
            attached[a] /\ b \in Targets(referencedBrokers, a) }

\* C3. Propagation never over-attaches: an attachFn that setAttached's loop
\* or addReference invoked, and a flag that was set inside such an attachFn,
\* belong to a broker that an attached broker references; a broker that is
\* not reachable from an attached broker is never touched by propagation.
C3_NoOverAttach ==
    /\ lastCall.byPropagation \subseteq ReferencedByAttached
    /\ lastCall.setByPropagation \subseteq lastCall.byPropagation
    /\ \A b \in lastCall.byPropagation :
          \E a \in Brokers \ {b} :
              attached[a] /\ b \in ReachFrom(referencedBrokers, {a})

\* A setAttached call has propagated along a chain: it invoked the attachFn
\* of a referenced broker, which set its flag and invoked the next one.
C3_Witness ==
    /\ lastCall.op = "setAttached"
    /\ Cardinality(lastCall.byPropagation) >= 2
    /\ lastCall.setByPropagation # {}

C5_Idempotent ==
    [][ (lastCall'.op \in {"attach", "setAttached"} /\ lastCall'.wasAttached)
        => /\ attached' = attached
           /\ referencedBrokers' = referencedBrokers
           /\ pendingAttach' = pendingAttach
           /\ ~lastCall'.threw
           /\ \A b \in Brokers : lastCall'.invoked[b] = 0 ]_vars

\* attach has been called on an attached broker that references a broker
\* which is not attached.
C5_Witness ==
    /\ lastCall.op = "attach"
    /\ lastCall.wasAttached
    /\ \E t \in Targets(referencedBrokers, lastCall.broker) : ~attached[t]

\* C6. The attached flag is monotonic: no call, also none that ends in an
\* exception, resets a flag that is set.
C6_Monotonic ==
    [][ \A b \in Brokers : attached[b] => attached'[b] ]_vars

\* A setAttached call on an unattached broker ended in an exception, and the
\* broker is attached.
C6_Witness ==
    /\ lastCall.op = "setAttached"
    /\ ~lastCall.wasAttached
    /\ lastCall.threw
    /\ attached[lastCall.broker]

\* C21. An exception thrown by an attachFn reaches the caller of the attach,
\* addReference or setAttached call that led to it (nothing in the graph
\* catches it, and nothing else throws), and that call invoked the failing
\* attachFn exactly once: there is no retry.
C21_ThrowPropagates ==
    /\ lastCall.threw <=> lastCall.thrower # NoBroker
    /\ lastCall.threw
       => /\ lastCall.op \in {"attach", "addReference", "setAttached", "complete"}
          /\ lastCall.invoked[lastCall.thrower] = 1
          /\ ~attached[lastCall.thrower]

\* A setAttached call ended in the exception of an attachFn that it reached
\* through a broker attached on the way, not one its own broker references.
C21_Witness ==
    /\ lastCall.op = "setAttached"
    /\ lastCall.threw
    /\ lastCall.thrower \in lastCall.byPropagation
    /\ lastCall.thrower \notin Targets(referencedBrokers, lastCall.broker)

\* C22. While an attachFn of broker b that was invoked has still to call
\* setAttached, every further path that reaches b invokes the attachFn of b
\* again: attach called on b, addReference of a new reference to b by an
\* attached broker, and setAttached on an unattached broker that references
\* b (unless an exception ends that call).
C22_InvokedAgainWhilePending ==
    [][ \A b \in pendingAttach :
            /\ ~attached[b]
            /\ (lastCall'.op = "attach" /\ lastCall'.broker = b)
               => lastCall'.invoked[b] = 1
            /\ ( /\ lastCall'.op = "addReference"
                 /\ lastCall'.target = b
                 /\ lastCall'.wasAttached
                 /\ ~lastCall'.wasReferenced )
               => lastCall'.invoked[b] = 1
            /\ ( /\ lastCall'.op \in {"setAttached", "complete"}
                 /\ lastCall'.broker # b
                 /\ ~lastCall'.wasAttached
                 /\ b \in Targets(referencedBrokers, lastCall'.broker)
                 /\ ~lastCall'.threw )
               => lastCall'.invoked[b] >= 1 ]_vars

\* One call has invoked the attachFn of one broker twice, along two paths,
\* and the broker is not attached.
C22_Witness ==
    \E b \in Brokers : lastCall.invoked[b] = 2 /\ ~attached[b]

\* C23. addReference is idempotent on the edge.  The call that finds no
\* reference to the target records it, emits referenceAdded once, and calls
\* the target's attach (which invokes its attachFn) exactly when its own
\* broker is attached and the target is not; the call that finds the
\* reference changes no flag, reference or pending attachFn, emits no event,
\* invokes no attachFn and raises no exception.
C23_AddReferenceIdempotent ==
    [][ lastCall'.op = "addReference"
        => LET from == lastCall'.broker
               to == lastCall'.target
           IN  IF lastCall'.wasReferenced
               THEN /\ attached' = attached
                    /\ referencedBrokers' = referencedBrokers
                    /\ pendingAttach' = pendingAttach
                    /\ lastCall'.emitted = <<>>
                    /\ \A x \in Brokers : lastCall'.invoked[x] = 0
                    /\ ~lastCall'.threw
               ELSE /\ referencedBrokers' =
                           [ referencedBrokers EXCEPT ![from] = Append(@, to) ]
                    /\ lastCall'.emitted = <<to>>
                    /\ IF attached[from] /\ ~attached[to]
                       THEN lastCall'.invoked[to] = 1
                       ELSE /\ \A x \in Brokers : lastCall'.invoked[x] = 0
                            /\ attached' = attached
                            /\ pendingAttach' = pendingAttach ]_vars

\* addReference has been called a second time for a reference from an
\* attached broker to a broker that is still not attached.
C23_Witness ==
    /\ lastCall.op = "addReference"
    /\ lastCall.wasReferenced
    /\ lastCall.wasAttached
    /\ ~attached[lastCall.target]

\* The brokers whose flag the last call set.
Flipped ==
    lastCall.setByPropagation
    \cup { b \in {lastCall.broker} \ {NoBroker} :
             ~lastCall.wasAttached /\ attached[b] }

\* C24. Propagation happens inside the call that makes it due.  When a call
\* that set the flag of a broker returns normally, every broker that broker
\* references is attached or had its attachFn invoked during the call.  And
\* there is no later sweep: an attachFn invoked by propagation belongs to a
\* broker referenced by one whose flag this call set, or to the target of
\* the new reference that this addReference call recorded on an attached
\* broker.
C24_PropagationInCall ==
    /\ ~lastCall.threw
       => \A n \in Flipped :
              \A t \in Targets(referencedBrokers, n) :
                  attached[t] \/ lastCall.invoked[t] >= 1
    /\ \A t \in lastCall.byPropagation :
          \/ /\ lastCall.op = "addReference"
             /\ t = lastCall.target
             /\ lastCall.wasAttached
             /\ ~lastCall.wasReferenced
          \/ \E n \in Flipped : t \in Targets(referencedBrokers, n)

\* setAttached has set the flag of a broker with two references and has
\* returned normally; one target's attachFn called setAttached, the other's
\* has still to.
C24_Witness ==
    /\ lastCall.op = "setAttached"
    /\ ~lastCall.wasAttached
    /\ ~lastCall.threw
    /\ \E t1, t2 \in Targets(referencedBrokers, lastCall.broker) :
          /\ attached[t1] /\ t1 \in lastCall.setByPropagation
          /\ ~attached[t2] /\ lastCall.invoked[t2] >= 1

\* C27. Propagation terminates on every reference graph, cycles and
\* self-references included.  When every attachFn calls setAttached
\* synchronously, attach and setAttached can be called on every broker of
\* every graph (the call has an end), and a call invokes no attachFn more
\* than once, raises no exception and leaves no attachFn pending.
C27_Terminates ==
    /\ \A b \in Brokers : lastCall.invoked[b] <= 1
    /\ ~lastCall.threw
    /\ pendingAttach = {}
    /\ \A b \in Brokers :
          LowestFresh({b})
          => /\ ENABLED Attach(SyncHost, b)
             /\ ENABLED SetAttached(SyncHost, b)

\* setAttached has run on a broker that references itself and lies on a
\* cycle through another broker, whose attachFn it invoked.
C27_Witness ==
    /\ lastCall.op = "setAttached"
    /\ ~lastCall.wasAttached
    /\ lastCall.broker \in Targets(referencedBrokers, lastCall.broker)
    /\ \E t \in Targets(referencedBrokers, lastCall.broker) \ {lastCall.broker} :
          /\ lastCall.broker \in ReachFrom(referencedBrokers, {t})
          /\ lastCall.invoked[t] = 1

\* C28. When every attachFn calls setAttached on its own broker
\* synchronously and none throws, then between the host's calls the attached
\* brokers are closed under referencedBrokers: every broker that an attached
\* broker references is attached.
C28_ClosedUnderReferences ==
    \A a \in Brokers :
        attached[a] => \A t \in Targets(referencedBrokers, a) : attached[t]

\* A call has attached a chain of brokers by propagation, and an attached
\* broker had a reference added to it after it was attached.
C28_Witness ==
    /\ lastCall.op = "addReference"
    /\ lastCall.wasAttached
    /\ ~lastCall.targetWasAttached
    /\ Cardinality(lastCall.setByPropagation) >= 2
    /\ \A b \in lastCall.setByPropagation : attached[b]

\* The position of broker t in the referencedBrokers of broker b.
IndexOf(b, t) ==
    CHOOSE i \in 1..Len(referencedBrokers[b]) : referencedBrokers[b][i] = t

\* The brokers that broker b references before broker t, in iteration order.
EarlierTargets(b, t) ==
    { referencedBrokers[b][j] : j \in 1..(IndexOf(b, t) - 1) }

\* C33. A setAttached call on broker n that ends in the exception of an
\* attachFn leaves n attached (the flag is not taken back).  When the
\* attachFn that threw is that of a broker n references, the brokers n
\* references later in iteration order are not attempted: the call invoked
\* the attachFn of such a broker (other than n itself) only if it reached it
\* from an earlier target, and otherwise left it as it was.  A setAttached call on n after
\* that changes nothing, invokes no attachFn and does not throw.
C33_ThrowLeavesAttached ==
    [][ /\ ( /\ lastCall'.op \in {"setAttached", "complete"}
             /\ lastCall'.threw )
           => LET n == lastCall'.broker
                  t == lastCall'.thrower
              IN  /\ ~attached[n]
                  /\ attached'[n]
                  /\ t \in Targets(referencedBrokers, n)
                     => \A j \in (IndexOf(n, t) + 1)..Len(referencedBrokers[n]) :
                           LET later == referencedBrokers[n][j]
                           IN  ( /\ later # n
                                 /\ later \notin ReachFrom(referencedBrokers,
                                                          EarlierTargets(n, t)) )
                               => /\ lastCall'.invoked[later] = 0
                                  /\ attached'[later] = attached[later]
                                  /\ later \in pendingAttach'
                                        <=> later \in pendingAttach
        /\ ( /\ lastCall.op \in {"setAttached", "complete"}
             /\ lastCall.threw
             /\ lastCall'.op = "setAttached"
             /\ lastCall'.broker = lastCall.broker )
           => /\ attached' = attached
              /\ pendingAttach' = pendingAttach
              /\ referencedBrokers' = referencedBrokers
              /\ ~lastCall'.threw
              /\ \A x \in Brokers : lastCall'.invoked[x] = 0 ]_vars

\* A setAttached call ended in the exception of the attachFn of the first
\* broker its broker references: its broker is attached, and the second
\* broker it references was not attempted and is neither attached nor
\* pending.
C33_Witness ==
    /\ lastCall.op = "setAttached"
    /\ lastCall.threw
    /\ Len(referencedBrokers[lastCall.broker]) >= 2
    /\ lastCall.thrower = referencedBrokers[lastCall.broker][1]
    /\ attached[lastCall.broker]
    /\ LET later == referencedBrokers[lastCall.broker][2]
       IN  /\ later # lastCall.broker
           /\ lastCall.invoked[later] = 0
           /\ ~attached[later]
           /\ later \notin pendingAttach

\* C34. An addReference call that ends in an exception (the attachFn of the
\* target, or of a broker reached from it, threw) had not recorded the
\* reference before; it has recorded it and has emitted referenceAdded with
\* the target, and the exception takes neither back.  The same addReference
\* call made next finds the reference: it changes nothing, emits nothing,
\* invokes no attachFn and does not throw.
C34_ThrowKeepsReference ==
    [][ /\ ( /\ lastCall'.op = "addReference"
             /\ lastCall'.threw )
           => LET from == lastCall'.broker
                  to == lastCall'.target
              IN  /\ to \notin Targets(referencedBrokers, from)
                  /\ referencedBrokers' =
                        [ referencedBrokers EXCEPT ![from] = Append(@, to) ]
                  /\ lastCall'.emitted = <<to>>
                  /\ attached[from]
                  /\ lastCall'.invoked[to] = 1
        /\ ( /\ lastCall.op = "addReference"
             /\ lastCall.threw
             /\ lastCall'.op = "addReference"
             /\ lastCall'.broker = lastCall.broker
             /\ lastCall'.target = lastCall.target )
           => /\ lastCall'.wasReferenced
              /\ attached' = attached
              /\ pendingAttach' = pendingAttach
              /\ referencedBrokers' = referencedBrokers
              /\ lastCall'.emitted = <<>>
              /\ ~lastCall'.threw
              /\ \A x \in Brokers : lastCall'.invoked[x] = 0 ]_vars

\* An addReference call ended in the exception of its target's attachFn:
\* the reference is recorded, the event was emitted, and the target is not
\* attached.
C34_Witness ==
    /\ lastCall.op = "addReference"
    /\ lastCall.threw
    /\ lastCall.thrower = lastCall.target
    /\ lastCall.target \in Targets(referencedBrokers, lastCall.broker)
    /\ lastCall.emitted = <<lastCall.target>>
    /\ ~attached[lastCall.target]

\* C35. referenceAdded is emitted once for each reference.  A call that
\* adds a reference is an addReference call for a reference that was not
\* recorded; it adds that one reference and emits one event, whose argument
\* is the target, and the listener finds the reference recorded and the
\* target as it was before the call, its attachFn not yet invoked by the
\* call.  A call that adds no reference (a repeated addReference, attach,
\* setAttached) emits nothing; and no call removes a reference, so that no
\* reference is added, and announced, a second time.
C35_EmittedOncePerEdge ==
    [][ /\ \A b \in Brokers :
              /\ Len(referencedBrokers'[b]) >= Len(referencedBrokers[b])
              /\ SubSeq(referencedBrokers'[b], 1, Len(referencedBrokers[b]))
                    = referencedBrokers[b]
        /\ IF referencedBrokers' # referencedBrokers
           THEN LET from == lastCall'.broker
                    to == lastCall'.target
                IN  /\ lastCall'.op = "addReference"
                    /\ to \notin Targets(referencedBrokers, from)
                    /\ referencedBrokers' =
                          [ referencedBrokers EXCEPT ![from] = Append(@, to) ]
                    /\ lastCall'.emitted = <<to>>
                    /\ lastCall'.heard = << [ recorded |-> TRUE,
                                              attached |-> attached[to],
                                              invoked |-> 0 ] >>
           ELSE /\ lastCall'.emitted = <<>>
                /\ lastCall'.heard = <<>> ]_vars

\* An addReference call from an attached broker has emitted the event and,
\* after it, invoked the target's attachFn.
C35_Witness ==
    /\ lastCall.op = "addReference"
    /\ lastCall.emitted = <<lastCall.target>>
    /\ Len(lastCall.heard) = 1
    /\ lastCall.heard[1].recorded
    /\ lastCall.heard[1].invoked = 0
    /\ lastCall.invoked[lastCall.target] = 1

-----------------------------------------------------------------------------
(***************************************************************************)
(* Properties of PromiseCache                                              *)
(***************************************************************************)
\* The promises computed for the key of the last call, before that call, that
\* are still pending.
EarlierPending ==
    { p \in 1..Len(promises) :
        /\ promises[p].key = lastOp.key
        /\ promises[p].status = "pending"
        /\ ~(lastOp.computed /\ p = Len(promises)) }

\* C1 as stated: an addOrGet call made while the promise of an earlier
\* compute for its key is still pending does not invoke compute and returns
\* that promise.
C1_Original ==
    (lastOp.op = "addOrGet" /\ EarlierPending # {}) =>
        (~lastOp.computed /\ lastOp.returned \in EarlierPending)

\* C1: an addOrGet call that finds an entry at its key, pending or settled,
\* does not invoke compute and returns the promise of that entry, so every
\* call made while the in-flight entry is still stored shares the one
\* compute; a call that finds no entry invokes compute once and has stored
\* the promise at the key when it returns.  An earlier compute that is still
\* pending is invoked again only when its entry is no longer stored.
C1_DedupWhileStored ==
    lastOp.op = "addOrGet" =>
        /\ lastOp.wasPresent =>
              (~lastOp.computed /\ lastOp.returned = lastOp.previous)
        /\ ~lastOp.wasPresent =>
              (lastOp.computed /\ lastOp.returned = Len(promises))
        /\ cache[lastOp.key] = lastOp.returned
        /\ \A p \in EarlierPending : lastOp.computed => lastOp.previous # p

\* An addOrGet call found the in-flight entry of an earlier call.
C1_Witness ==
    /\ lastOp.op = "addOrGet"
    /\ lastOp.wasPresent
    /\ ~lastOp.computed
    /\ lastOp.returned \in EarlierPending
    /\ cache[lastOp.key] = lastOp.returned

\* The pending timers that were set for a key, and the ticks left on the
\* one timer of a key that has exactly one.
KeyTimers(ts, key) == { i \in 1..Len(ts) : ts[i].key = key }

Left(ts, key) == ts[CHOOSE i \in KeyTimers(ts, key) : TRUE].left

\* C13. Absolute expiry: the step that stores an entry sets one timer of
\* Duration ticks for its key; for as long as the entry is stored, whatever
\* get, addOrGet, add and has calls are made and whenever its promise
\* settles, that timer is the key's only timer and loses exactly one tick
\* per tick of time (it is never set again); and expiry removes the entry
\* when, and only when, that timer has no tick left, Duration ticks after
\* the entry was stored.
C13_AbsoluteExpiry ==
    [][ expiry = "absolute" =>
          \A k \in Keys :
             /\ (cache[k] = NoPromise /\ cache'[k] # NoPromise)
                   => /\ Cardinality(KeyTimers(timers', k)) = 1
                      /\ Left(timers', k) = Duration
             /\ (cache[k] # NoPromise /\ cache'[k] = cache[k])
                   => /\ Cardinality(KeyTimers(timers, k)) = 1
                      /\ Cardinality(KeyTimers(timers', k)) = 1
                      /\ Left(timers', k) =
                            IF lastOp'.op = "tick" THEN Left(timers, k) - 1
                            ELSE Left(timers, k)
             /\ (cache[k] # NoPromise /\ lastOp'.op = "expire"
                    /\ Head(timers).key = k)
                   => /\ Left(timers, k) = 0
                      /\ cache'[k] = NoPromise
                      /\ KeyTimers(timers', k) = {}
             /\ (cache[k] # NoPromise /\ Left(timers, k) = 0)
                   => lastOp'.op # "tick" ]_vars

\* Under absolute expiry an entry was read when its time was up: its timer
\* was not set again and is due.
C13_Witness ==
    /\ expiry = "absolute"
    /\ lastOp.op = "get"
    /\ lastOp.wasPresent
    /\ cache[lastOp.key] # NoPromise
    /\ promises[cache[lastOp.key]].status = "fulfilled"
    /\ Cardinality(KeyTimers(timers, lastOp.key)) = 1
    /\ Left(timers, lastOp.key) = 0

\* The timer gcTimeouts holds for a key, and the ticks left on it.
HeldTimers(ts, key) == { i \in 1..Len(ts) : ts[i].key = key /\ ts[i].held }

HeldLeft(ts, key) == ts[CHOOSE i \in HeldTimers(ts, key) : TRUE].left

\* The step read the entry of key k: a get, or an addOrGet or add that found
\* the entry.
ReadOf(k) ==
    /\ lastOp'.op \in {"get", "addOrGet", "add"}
    /\ lastOp'.key = k
    /\ lastOp'.wasPresent

\* C14 as stated.  Sliding expiry: the timer of a stored entry is set to
\* Duration ticks by every read of the entry and by nothing else, and loses
\* one tick per tick of time, so that an entry read at intervals shorter
\* than Duration is not removed by expiry; and expiry removes the entry
\* when that timer has no tick left, Duration ticks after the last read.
C14_Original ==
    [][ expiry = "sliding" =>
          \A k \in Keys :
             /\ (cache[k] # NoPromise /\ cache'[k] = cache[k])
                   => /\ HeldTimers(timers, k) # {}
                      /\ HeldTimers(timers', k) # {}
                      /\ HeldLeft(timers', k) =
                            IF ReadOf(k) THEN Duration
                            ELSE IF lastOp'.op = "tick"
                                 THEN HeldLeft(timers, k) - 1
                                 ELSE HeldLeft(timers, k)
             /\ (cache[k] # NoPromise /\ cache'[k] = NoPromise
                    /\ lastOp'.op = "expire")
                   => /\ HeldTimers(timers, k) # {}
                      /\ HeldLeft(timers, k) = 0 ]_vars

\* The promises in the microtask queue.
Queued == { microtasks[i] : i \in 1..Len(microtasks) }

\* C15. Error eviction: when the reaction to a rejected promise runs and
\* removeOnError(error) is true, the entry at the promise's key is removed
\* (the other keys keep theirs), and an addOrGet for a key without an entry
\* invokes compute again; when removeOnError(error) is false the reaction
\* leaves the cache as it is, and an addOrGet that finds the rejected entry
\* returns that promise and does not invoke compute.
C15_ErrorEviction ==
    [][ /\ (lastOp'.op = "reaction" /\ microtasks # <<>>
              /\ promises[Head(microtasks)].status = "rejected")
           => LET p == Head(microtasks)
              IN  IF removeOnError(promises[p].error)
                  THEN cache' = [ cache EXCEPT ![promises[p].key] = NoPromise ]
                  ELSE cache' = cache
        /\ lastOp'.op = "addOrGet"
           => LET k == lastOp'.key
              IN  /\ cache[k] = NoPromise
                     => /\ lastOp'.computed
                        /\ Len(promises') = Len(promises) + 1
                        /\ lastOp'.returned = Len(promises')
                        /\ cache'[k] = Len(promises')
                  /\ (cache[k] # NoPromise /\ promises[cache[k]].status = "rejected")
                     => /\ ~lastOp'.computed
                        /\ promises' = promises
                        /\ lastOp'.returned = cache[k]
                        /\ cache'[k] = cache[k] ]_vars

\* After the first promise of a key was rejected with an error that
\* removeOnError accepts, and the reaction has run, addOrGet computed again.
C15_Witness ==
    /\ lastOp.op = "addOrGet"
    /\ lastOp.computed
    /\ Len(promises) = 2
    /\ promises[1].key = lastOp.key
    /\ promises[1].status = "rejected"
    /\ removeOnError(promises[1].error)
    /\ 1 \notin Queued
    /\ cache[lastOp.key] = 2

\* C16. With the indefinite policy no step sets a timer, and an entry
\* leaves the cache only in a remove call for its key or in the reaction to
\* a rejection whose error removeOnError accepts.
C16_Indefinite ==
    [][ expiry = "indefinite" =>
          /\ timers = <<>>
          /\ timers' = <<>>
          /\ \A k \in Keys :
                (cache[k] # NoPromise /\ cache'[k] # cache[k])
                => /\ cache'[k] = NoPromise
                   /\ \/ lastOp'.op = "remove" /\ lastOp'.key = k
                      \/ /\ lastOp'.op = "reaction"
                         /\ microtasks # <<>>
                         /\ promises[Head(microtasks)].key = k
                         /\ promises[Head(microtasks)].status = "rejected"
                         /\ removeOnError(promises[Head(microtasks)].error) ]_vars

\* With the indefinite policy an entry whose promise was fulfilled, and whose
\* reaction has run, was read, and no timer is pending.
C16_Witness ==
    /\ expiry = "indefinite"
    /\ lastOp.op = "get"
    /\ lastOp.wasPresent
    /\ cache[lastOp.key] # NoPromise
    /\ promises[cache[lastOp.key]].status = "fulfilled"
    /\ cache[lastOp.key] \notin Queued
    /\ timers = <<>>

\* C17 as stated: a timer is pending for a key only while the cache holds an
\* entry for that key (remove, error eviction and expiry leave no timer of
\* the key pending), and a key has at most one pending timer.
C17_Original ==
    /\ \A i \in 1..Len(timers) : cache[timers[i].key] # NoPromise
    /\ \A k \in Keys : Cardinality(KeyTimers(timers, k)) <= 1

\* C18 as stated: when expiry removes the entry of a key, the timer
\* gcTimeouts holds for the key, which was set when the entry was stored or
\* (sliding) last read, has no tick left: the entry is not removed earlier
\* than Duration ticks after that.
C18_Original ==
    [][ (lastOp'.op = "expire" /\ timers # <<>>
           /\ cache[Head(timers).key] # NoPromise)
        => /\ HeldTimers(timers, Head(timers).key) # {}
           /\ HeldLeft(timers, Head(timers).key) = 0 ]_vars

\* C19. add(key, asyncFn) returns true exactly when it found no entry at
\* the key; it invokes asyncFn exactly then, storing the new promise, which
\* may still be pending when add returns, and leaves an entry it finds as it
\* is; and it puts a catch on the promise addOrGet gave it, so that a
\* rejection has a handler.
C19_Add ==
    lastOp.op = "add" =>
        /\ lastOp.result <=> ~lastOp.wasPresent
        /\ lastOp.computed <=> ~lastOp.wasPresent
        /\ lastOp.wasPresent => cache[lastOp.key] = lastOp.previous
        /\ ~lastOp.wasPresent => cache[lastOp.key] = Len(promises)
        /\ lastOp.caught

\* add found an entry whose promise was rejected and kept: it returned
\* false and left the entry.
C19_Witness ==
    /\ lastOp.op = "add"
    /\ lastOp.wasPresent
    /\ ~lastOp.result
    /\ ~lastOp.computed
    /\ cache[lastOp.key] = lastOp.previous
    /\ promises[lastOp.previous].status = "rejected"

\* The pending timers of the keys other than key, in order.
OtherTimers(ts, key) ==
    LET other(t) == t.key # key
    IN  SelectSeq(ts, other)

\* C20 as stated: remove(key) returns true exactly when the key had an
\* entry; afterwards the key has no entry (has is false, get is undefined)
\* and no timer is pending for it; the entries and timers of the other keys
\* are as before.
C20_Original ==
    [][ lastOp'.op = "remove"
        => LET k == lastOp'.key
           IN  /\ lastOp'.result <=> (cache[k] # NoPromise)
               /\ ~has(Store(cache', timers'), k)
               /\ cache'[k] = NoPromise
               /\ KeyTimers(timers', k) = {}
               /\ \A j \in Keys \ {k} : cache'[j] = cache[j]
               /\ OtherTimers(timers', k) = OtherTimers(timers, k) ]_vars

\* C25. A rejection reaches every holder of the entry's result.  get and
\* addOrGet hand out the promise that is stored at the key, be it pending or
\* rejected, and the addOrGet that computes hands out the promise it stores:
\* all holders of one entry hold one promise, and see its rejection with its
\* error, whether the entry is evicted afterwards or kept.
C25_RejectionForwarded ==
    /\ lastOp.op \in {"addOrGet", "get"}
       => /\ lastOp.wasPresent
             => /\ lastOp.returned = lastOp.previous
                /\ promises[lastOp.returned].key = lastOp.key
          /\ lastOp.computed
             => /\ lastOp.returned = Len(promises)
                /\ promises[lastOp.returned].key = lastOp.key
                /\ cache[lastOp.key] = lastOp.returned
          /\ (~lastOp.wasPresent /\ ~lastOp.computed)
             => lastOp.returned = NoPromise
    /\ \A p \in 1..Len(promises) :
          promises[p].status = "rejected" <=> promises[p].error \in Errors

\* get has returned the promise of an entry that had been handed out by the
\* addOrGet that computed it, and that is rejected and kept.
C25_Witness ==
    /\ lastOp.op = "get"
    /\ lastOp.returned # NoPromise
    /\ promises[lastOp.returned].status = "rejected"
    /\ cache[lastOp.key] = lastOp.returned
    /\ lastOp.returned \notin Queued

\* C29. What asyncFn throws when addOrGet invokes it is treated like a
\* rejection.  addOrGet returns a promise, a rejected one, which it has
\* stored at the key and whose reaction is queued; and when the reaction to
\* a rejected promise runs, the key's entry is evicted if removeOnError
\* says so and everything is kept as it is if not.
C29_ThrowIsRejection ==
    [][ /\ ( /\ lastOp'.op = "addOrGet"
             /\ lastOp'.computed
             /\ promises'[lastOp'.returned].status = "rejected" )
           => /\ cache'[lastOp'.key] = lastOp'.returned
              /\ microtasks' = Append(microtasks, lastOp'.returned)
              /\ timers' = gcSchedule(expiry, timers, lastOp'.key)
        /\ ( /\ lastOp'.op = "reaction"
             /\ promises[Head(microtasks)].status = "rejected" )
           => LET p == Head(microtasks)
              IN  IF removeOnError(promises[p].error)
                  THEN cache'[promises[p].key] = NoPromise
                  ELSE cache' = cache /\ timers' = timers ]_vars

\* addOrGet has stored and returned the promise of an asyncFn that threw an
\* error removeOnError keeps, and the reaction to it has run: the entry is
\* still there.
C29_Witness ==
    /\ lastOp.op = "reaction"
    /\ Len(promises) = 1
    /\ promises[1].status = "rejected"
    /\ promises[1].error = "E2"
    /\ cache[promises[1].key] = 1
    /\ expiry = "indefinite"

\* C30 as stated: error eviction removes only the entry whose work was
\* rejected.  When the reaction to a rejected promise runs and the entry at
\* its key holds another promise (the key was removed and added again), or
\* none, the cache and the timers stay as they are.
C30_Original ==
    [][ ( /\ lastOp'.op = "reaction"
          /\ promises[Head(microtasks)].status = "rejected"
          /\ cache[promises[Head(microtasks)].key] # Head(microtasks) )
        => /\ cache' = cache
           /\ timers' = timers ]_vars

\* C31 as stated: when the reaction to a fulfilled promise runs, under the
\* sliding policy the timer of the promise's key is set again to Duration
\* ticks if the entry at the key still holds that promise, and no timer
\* changes if the key holds another promise or none; under the absolute and
\* the indefinite policy no timer changes.
C31_Original ==
    [][ ( /\ lastOp'.op = "reaction"
          /\ promises[Head(microtasks)].status = "fulfilled" )
        => LET p == Head(microtasks)
               k == promises[p].key
           IN  IF expiry = "sliding" /\ cache[k] = p
               THEN /\ HeldTimers(timers', k) # {}
                    /\ HeldLeft(timers', k) = Duration
                    /\ OtherTimers(timers', k) = OtherTimers(timers, k)
               ELSE timers' = timers ]_vars

\* C32. has(key) is a pure read: it returns whether the key has an entry
\* and changes no entry and no timer, under the sliding policy too; and
\* get(key) for a key without an entry returns undefined (no promise),
\* stores nothing and sets no timer.
C32_PureReads ==
    [][ /\ lastOp'.op = "has"
           => /\ lastOp'.result <=> (cache[lastOp'.key] # NoPromise)
              /\ cache' = cache
              /\ timers' = timers
              /\ promises' = promises
              /\ microtasks' = microtasks
        /\ (lastOp'.op = "get" /\ cache[lastOp'.key] = NoPromise)
           => /\ lastOp'.returned = NoPromise
              /\ cache' = cache
              /\ timers' = timers
              /\ promises' = promises
              /\ microtasks' = microtasks ]_vars

\* Under the sliding policy has found an entry whose timer had lost a tick,
\* and the timer is as it was.
C32_Witness ==
    /\ expiry = "sliding"
    /\ lastOp.op = "has"
    /\ lastOp.result
    /\ cache[lastOp.key] # NoPromise
    /\ Cardinality(KeyTimers(timers, lastOp.key)) = 1
    /\ Left(timers, lastOp.key) < Duration

-----------------------------------------------------------------------------
(***************************************************************************)
(* Properties of PromiseCache2                                            *)
(***************************************************************************)
\* C26 as stated: the all-async cache never runs the work twice for a key.
\* Two addOrGet calls (add calls addOrGet) for a key without an entry, the
\* second made while the first is still suspended at its await, get the same
\* promise: asyncFn is invoked once, and the second call stores nothing over
\* the entry of the first.
C26_Original ==
    \A c2 \in 1..Len(calls) :
        \A c1 \in calls[c2].with :
            ( /\ calls[c1].at = "done"
              /\ calls[c2].at = "done"
              /\ ~calls[c2].present )
            => calls[c1].result = calls[c2].result

-----------------------------------------------------------------------------
(***************************************************************************)
(* Properties of DataStoreContexts                                         *)
(***************************************************************************)
\* The promise getContextUponBinding(id) returned is resolved with the
\* context registered for id.
Resolved(id) ==
    /\ got[id] # NoPromise
    /\ binds[got[id]].status = "fulfilled"
    /\ binds[got[id]].context = allContexts[id].context

\* C36 as stated: the promise getContextUponBinding(id) returns is resolved,
\* in the end, with the context of id whenever that context is bound, be it
\* registered by setupNew and bound by notifyOnBind or registered bound by
\* setNew, and be the call made before or after the binding; and no more
\* than one wait is started for an id.
C36_Original ==
    /\ \A id \in DataStoreIds :
          (got[id] # NoPromise /\ allContexts[id].bound) ~> Resolved(id)
    /\ [](\A id \in DataStoreIds :
             Cardinality({ w \in 1..Len(binds) : binds[w].id = id }) <= 1)

-----------------------------------------------------------------------------
(***************************************************************************)
(* Properties of DemoWithUnderlyingAsyncStore                              *)
(***************************************************************************)
\* The calls that hold the lock of a key.
Holders(key) ==
    { c \in 1..Len(lockers) : lockers[c].key = key /\ lockers[c].status = "holding" }

\* C37 as stated: the lock of a key is held by one caller at a time, with
\* the lockId heldLockIds has for the key, and the assert of lockNow never
\* fails, however many callers wait for the key when it is released.
C37_Original ==
    /\ ~assertFailed
    /\ \A key \in Keys :
          /\ Cardinality(Holders(key)) <= 1
          /\ \A c \in Holders(key) : heldLockIds[key] = lockers[c].lockId

\* C38 as stated: when no caller holds the lock of a key (every caller that
\* was given it has released it), heldLockIds has no entry for the key, so
\* that the next lock(key) takes the lock at once.
C38_Original ==
    \A key \in Keys : Holders(key) = {} => heldLockIds[key] = NoLock

-----------------------------------------------------------------------------
(***************************************************************************)
(* Properties of MapWithExpiration                                         *)
(***************************************************************************)
\* C39 as stated: whatever set, get and delete calls were made, under every
\* policy, each pending expiration timeout is that of a key with an entry;
\* and when dispose() has run no expiration timeout is pending.
C39_Original ==
    /\ [](\A i \in 1..Len(expirationTimeouts) :
             entries[expirationTimeouts[i]] # NoValue)
    /\ [][ (~disposed /\ disposed') => expirationTimeouts' = <<>> ]_vars

=============================================================================
